---- MODULE Spec2Model ----
(***************************************************************************)
(* A model of the eitype library session (src/src/lib.rs): symbolic key    *)
(* lookup, character resolution, the action sequencer, the key event       *)
(* emitter, the would-block retry of flush_with_retry and the session      *)
(* teardown (close / Drop).                                                *)
(*                                                                         *)
(* Characters are Unicode code points (naturals); a text or a key name is  *)
(* a sequence of code points.  The control state of the single-threaded    *)
(* program is a call stack of frames; every action of the model is one     *)
(* step of the function on top of the stack, or one flush attempt whose    *)
(* outcome the transport chooses.                                          *)
(***************************************************************************)
EXTENDS Integers, Sequences, FiniteSets, TLC

(***************************************************************************)
(* Bounds of the model.                                                    *)
(***************************************************************************)
\* Total number of actions a client hands to one session: the actions of
\* the lists given to execute_actions plus one for each direct call of
\* type_text or hold_modifier.
MaxActions == 3
\* In the sequencing specification, the number of consecutive would-block
\* answers the transport gives within one flush_with_retry call.
MaxWouldBlock == 1
\* In the flush specification, the number of actions a client hands to one
\* session.
MaxFlushActions == 2
\* In the fair flush specification, the number of actions a client hands to
\* one session.
MaxFairActions == 1
\* In the method specification, the number of direct calls of press_key,
\* press_modifier, hold_modifier and type_text a client makes on one session.
MaxApiCalls == 2
\* In the lookup specification, the number of direct calls a client makes on
\* one session.
MaxLookupCalls == 2
\* In the clock specification, the number of direct calls a client makes on
\* one session, and the time the clock reaches, in microseconds.
MaxClockCalls == 2
MaxTime == 3
\* sessions one process builds one after the other, and the calls made on
\* each, in the process specification
\* calls of type_text in the backpressure specification
MaxBackpressureCalls == 1
\* calls of type_text in the resolution specification
MaxResolveCalls == 1
\* calls of type_text in the fallback specification
MaxFallbackCalls == 1
\* the keysym_to_char specification converts every keysym from 0 to this one
\* (and chosen larger ones)
MaxSmallKeysym == 300
\* calls made on the session in the delay specification
MaxDelayCalls == 2
MaxSessions == 2
MaxProcessCalls == 1
MaxArgs == 3

(***************************************************************************)
(* Program constants of flush_with_retry.                                  *)
(***************************************************************************)
MAX_RETRIES == 50
INITIAL_DELAY_MS == 1
MAX_DELAY_MS == 100
\* errno of the would-block condition (EAGAIN == EWOULDBLOCK on Linux)
EAGAIN == 11
\* the fallback keycode of shift: key_to_keycode.get("shift").unwrap_or(42)
SHIFT_DEFAULT == 42
\* layout-internal (xkb) keycodes are 8 greater than evdev keycodes
XKB_OFFSET == 8

Min(a, b) == IF a < b THEN a ELSE b

(***************************************************************************)
(* build_key_to_keycode_map: the static table of symbolic names.           *)
(***************************************************************************)
\* decimal digits of a positive number below 100, as code points: format!("{}", i)
FormatNat(i) ==
    IF i < 10 THEN <<48 + i>> ELSE <<48 + (i \div 10), 48 + (i % 10)>>

NamedKeys ==
    { 
      <<<<115, 104, 105, 102, 116>>, 42>>,                    \* "shift"
      <<<<108, 115, 104, 105, 102, 116>>, 42>>,               \* "lshift"
      <<<<114, 115, 104, 105, 102, 116>>, 54>>,               \* "rshift"
      <<<<99, 116, 114, 108>>, 29>>,                          \* "ctrl"
      <<<<99, 111, 110, 116, 114, 111, 108>>, 29>>,           \* "control"
      <<<<108, 99, 116, 114, 108>>, 29>>,                     \* "lctrl"
      <<<<114, 99, 116, 114, 108>>, 97>>,                     \* "rctrl"
      <<<<97, 108, 116>>, 56>>,                               \* "alt"
      <<<<108, 97, 108, 116>>, 56>>,                          \* "lalt"
      <<<<114, 97, 108, 116>>, 100>>,                         \* "ralt"
      <<<<97, 108, 116, 103, 114>>, 100>>,                    \* "altgr"
      <<<<115, 117, 112, 101, 114>>, 125>>,                   \* "super"
      <<<<109, 101, 116, 97>>, 125>>,                         \* "meta"
      <<<<119, 105, 110>>, 125>>,                             \* "win"
      <<<<108, 115, 117, 112, 101, 114>>, 125>>,              \* "lsuper"
      <<<<114, 115, 117, 112, 101, 114>>, 126>>,              \* "rsuper"
      <<<<101, 115, 99, 97, 112, 101>>, 1>>,                  \* "escape"
      <<<<101, 115, 99>>, 1>>,                                \* "esc"
      <<<<114, 101, 116, 117, 114, 110>>, 28>>,               \* "return"
      <<<<101, 110, 116, 101, 114>>, 28>>,                    \* "enter"
      <<<<116, 97, 98>>, 15>>,                                \* "tab"
      <<<<98, 97, 99, 107, 115, 112, 97, 99, 101>>, 14>>,     \* "backspace"
      <<<<100, 101, 108, 101, 116, 101>>, 111>>,              \* "delete"
      <<<<105, 110, 115, 101, 114, 116>>, 110>>,              \* "insert"
      <<<<104, 111, 109, 101>>, 102>>,                        \* "home"
      <<<<101, 110, 100>>, 107>>,                             \* "end"
      <<<<112, 97, 103, 101, 117, 112>>, 104>>,               \* "pageup"
      <<<<112, 97, 103, 101, 100, 111, 119, 110>>, 109>>,     \* "pagedown"
      <<<<115, 112, 97, 99, 101>>, 57>>,                      \* "space"
      <<<<99, 97, 112, 115, 108, 111, 99, 107>>, 58>>,        \* "capslock"
      <<<<110, 117, 109, 108, 111, 99, 107>>, 69>>,           \* "numlock"
      <<<<115, 99, 114, 111, 108, 108, 108, 111, 99, 107>>, 70>>,\* "scrolllock"
      <<<<112, 114, 105, 110, 116>>, 99>>,                    \* "print"
      <<<<112, 114, 105, 110, 116, 115, 99, 114, 101, 101, 110>>, 99>>,\* "printscreen"
      <<<<112, 97, 117, 115, 101>>, 119>>,                    \* "pause"
      <<<<109, 101, 110, 117>>, 127>>,                        \* "menu"
      <<<<117, 112>>, 103>>,                                  \* "up"
      <<<<100, 111, 119, 110>>, 108>>,                        \* "down"
      <<<<108, 101, 102, 116>>, 105>>,                        \* "left"
      <<<<114, 105, 103, 104, 116>>, 106>>,                   \* "right"
      <<<<49>>, 2>>,                                          \* "1"
      <<<<50>>, 3>>,                                          \* "2"
      <<<<51>>, 4>>,                                          \* "3"
      <<<<52>>, 5>>,                                          \* "4"
      <<<<53>>, 6>>,                                          \* "5"
      <<<<54>>, 7>>,                                          \* "6"
      <<<<55>>, 8>>,                                          \* "7"
      <<<<56>>, 9>>,                                          \* "8"
      <<<<57>>, 10>>,                                         \* "9"
      <<<<48>>, 11>>                                          \* "0"
    }

\* for i in 1..=12 { map.insert(format!("f{}", i), 58 + i) }
FunctionKeys == { <<(<<102>> \o FormatNat(i)), 58 + i>> : i \in 1..12 }

\* for (ch, code) in letters.chars().zip(letter_codes.iter())
letter_codes ==
    << 30, 48, 46, 32, 18, 33, 34, 35, 23, 36, 37, 38, 50, 49, 24, 25, 16, 19,
       31, 20, 22, 47, 17, 45, 21, 44 >>

LetterKeys == { << <<96 + i>>, letter_codes[i] >> : i \in 1..26 }

KeyEntries == NamedKeys \cup FunctionKeys \cup LetterKeys

build_key_to_keycode_map ==
    [ n \in { e[1] : e \in KeyEntries } |->
        (CHOOSE e \in KeyEntries : e[1] = n)[2] ]

\* char::to_lowercase on the characters the model uses: ASCII and Latin-1
\* capitals move down by 32, every other character is unchanged.
CharToLower(c) ==
    IF (c >= 65 /\ c <= 90) \/ (c >= 192 /\ c <= 222 /\ c # 215)
    THEN c + 32 ELSE c

to_lowercase_Identity(name) == name

\* str::to_lowercase
to_lowercase(name) == [ i \in 1..Len(name) |-> CharToLower(name[i]) ]

\* key_to_keycode.get(&name.to_lowercase()).copied(): the keycode, or -1 for None
LookupKey_OrDefault(table, name) ==
    IF to_lowercase(name) \in DOMAIN table THEN table[to_lowercase(name)] ELSE 0

LookupKey(table, name) ==
    IF to_lowercase(name) \in DOMAIN table THEN table[to_lowercase(name)] ELSE -1

(***************************************************************************)
(* keysym_to_char and find_keycode_for_char.                               *)
(***************************************************************************)
\* -1 stands for None
char_from_u32_Any(i) == i

\* char::from_u32: None for a surrogate (0xD800..=0xDFFF) and above 0x10FFFF
char_from_u32(i) ==
    IF (i >= 55296 /\ i <= 57343) \/ i > 1114111 THEN -1 ELSE i

keysym_to_char(keysym) ==
    IF keysym >= 32 /\ keysym <= 126 THEN char_from_u32(keysym)
    ELSE IF keysym >= 160 /\ keysym <= 255 THEN char_from_u32(keysym)
    ELSE IF keysym >= 16777216 THEN char_from_u32(keysym - 16777216)
    ELSE IF keysym = 65293 THEN 10
    ELSE IF keysym = 65289 THEN 9
    ELSE IF keysym = 32 THEN 32
    ELSE -1

\* A compiled keymap is a record: min_keycode, max_keycode, and keys, a
\* function from the layout-internal keycodes that have symbols to the
\* sequence of their layouts; a layout is a sequence of levels and a level
\* the sequence of keysyms bound to it.
num_layouts_for_key(keymap, keycode) ==
    IF keycode \in DOMAIN keymap.keys THEN Len(keymap.keys[keycode]) ELSE 0

\* layouts and levels are indexed from 0 in the code, from 1 in a sequence
num_levels_for_key(keymap, keycode, layout) ==
    Len(keymap.keys[keycode][layout + 1])

key_get_syms_by_level(keymap, keycode, layout, level) ==
    keymap.keys[keycode][layout + 1][level + 1]

\* for sym in syms: does some keysym of the level convert to ch
SymsMatch(syms, ch) ==
    \E j \in 1..Len(syms) : keysym_to_char(syms[j]) # -1 /\ keysym_to_char(syms[j]) = ch

NotFound == [ok |-> FALSE, keycode |-> 0, need_shift |-> FALSE]

evdev_keycode_Raw(keycode_raw) == keycode_raw

\* let evdev_keycode = keycode_raw - 8
evdev_keycode(keycode_raw) == keycode_raw - XKB_OFFSET

RECURSIVE ScanLevels(_, _, _, _, _)
\* for level in 0..num_levels: the first level that matches
ScanLevels(ch, keymap, layout_index, keycode_raw, level) ==
    IF level >= num_levels_for_key(keymap, keycode_raw, layout_index)
    THEN NotFound
    ELSE IF SymsMatch(key_get_syms_by_level(keymap, keycode_raw, layout_index, level), ch)
    THEN [ok |-> TRUE, keycode |-> evdev_keycode(keycode_raw), need_shift |-> (level = 1)]
    ELSE ScanLevels(ch, keymap, layout_index, keycode_raw, level + 1)

RECURSIVE ScanKeycodes(_, _, _, _)
\* for keycode_raw in min_keycode..=max_keycode
ScanKeycodes(ch, keymap, layout_index, keycode_raw) ==
    IF keycode_raw > keymap.max_keycode
    THEN NotFound
    ELSE LET hit == IF layout_index < num_layouts_for_key(keymap, keycode_raw)
                    THEN ScanLevels(ch, keymap, layout_index, keycode_raw, 0)
                    ELSE NotFound
         IN  IF hit.ok THEN hit
             ELSE ScanKeycodes(ch, keymap, layout_index, keycode_raw + 1)

find_keycode_for_char(ch, keymap, layout_index) ==
    ScanKeycodes(ch, keymap, layout_index, keymap.min_keycode)

\* The keymap compiled for the sessions of the model: the rows of a "us"
\* layout the texts of the model use, keyed by layout-internal keycode.
KeymapUS ==
    [ min_keycode |-> 8,
      max_keycode |-> 60,
      keys |-> ( 31 :> << << <<105>>, <<73>> >> >>      \* evdev 23: i I
              @@ 43 :> << << <<104>>, <<72>> >> >>      \* evdev 35: h H
              @@ 54 :> << << <<99>>,  <<67>> >> >> ) ]  \* evdev 46: c C

\* EiTypeConfig, the fields that select a keymap: TRUE where the Option is Some
KeymapConfig(layout, variant, model, options) ==
    [layout |-> layout, variant |-> variant, model |-> model, options |-> options]
NoConfig == KeymapConfig(FALSE, FALSE, FALSE, FALSE)

\* EiTypeConfig::is_specified
is_specified(c) == c.layout \/ c.variant \/ c.model \/ c.options

\* xkb::Keymap::new_from_names with the names of c (every name "" compiles the
\* system default) and xkb::Keymap::new_from_fd with the device's blob; the
\* compiled keymap remembers what it was compiled from.
new_from_names(c) ==
    [source |-> IF is_specified(c) THEN "configured" ELSE "system"] @@ KeymapUS
new_from_fd(blob) == [source |-> "device"] @@ blob

\* EiType::setup_keymap, the keymap it stores when the compilation succeeds
setup_keymap(c, device) ==
    IF is_specified(c) THEN new_from_names(c)
    ELSE IF device # <<>> THEN new_from_fd(device[1])
    ELSE new_from_names(NoConfig)

\* A keymap with two layouts, as a device of a desktop configured with
\* "us,fr" attaches it; rows keyed by layout-internal keycode:
\*   10 (evdev  2)  us: 1 ! onesuperior        fr: & 1
\*   11 (evdev  3)  us: 2 @                    (one layout only)
\*   24 (evdev 16)  us: q Q @                  fr: a A
\*   38 (evdev 30)  us: a A                    fr: q Q
\*   51 (evdev 43)  us: \ |                    fr: * mu
\*   59 (evdev 51)  us: , <                    fr: ; .
\*   65 (evdev 57)  us: space space            fr: space space
\*   94 (evdev 86)  us: < > |                  fr: < >
KeymapMulti ==
    [ min_keycode |-> 8,
      max_keycode |-> 100,
      keys |-> ( 10 :> << << <<49>>, <<33>>, <<185>> >>, << <<38>>, <<49>> >> >>
              @@ 11 :> << << <<50>>, <<64>> >> >>
              @@ 24 :> << << <<113>>, <<81>>, <<64>> >>, << <<97>>, <<65>> >> >>
              @@ 38 :> << << <<97>>, <<65>> >>, << <<113>>, <<81>> >> >>
              @@ 51 :> << << <<92>>, <<124>> >>, << <<42>>, <<181>> >> >>
              @@ 59 :> << << <<44>>, <<60>> >>, << <<59>>, <<46>> >> >>
              @@ 65 :> << << <<32>>, <<32>> >>, << <<32>>, <<32>> >> >>
              @@ 94 :> << << <<60>>, <<62>>, <<124>> >>, << <<60>>, <<62>> >> >> ) ]

(***************************************************************************)
(* Inputs of the model.                                                    *)
(***************************************************************************)
Type(text) == [type |-> "Type", arg |-> text]
Key(name) == [type |-> "Key", arg |-> name]
ModifierHold(name) == [type |-> "ModifierHold", arg |-> name]
ModifierPress(name) == [type |-> "ModifierPress", arg |-> name]

T_Hi == <<72, 105>>                                   \* "Hi"
T_H == <<72>>                                         \* "H"
T_HI == <<72, 73>>                                    \* "HI"
T_eacute == <<233>>                                   \* e-acute, not in KeymapUS
T_ie == <<105, 233>>                                  \* "i", then e-acute
N_ctrl == <<99, 116, 114, 108>>                       \* "ctrl"
N_Shift == <<83, 104, 105, 102, 116>>                 \* "Shift"
N_alt == <<97, 108, 116>>                             \* "alt"
N_nonexistent == <<110, 111, 110, 101, 120, 105, 115, 116, 101, 110, 116>>

\* the actions the lists given to execute_actions are made of
ActionAlphabet ==
    { ModifierHold(N_ctrl), ModifierHold(N_Shift), Type(T_Hi), Type(T_eacute),
      Key(N_nonexistent), ModifierPress(N_alt) }

\* the texts of direct type_text calls and the names of direct hold_modifier calls
Texts == { T_Hi, T_HI, T_eacute }
HoldNames == { N_ctrl }

\* every list of at most n actions
ActionLists(alphabet, n) == UNION { [1..m -> alphabet] : m \in 0..n }

\* errno values a failing connection.flush() reports: would-block and a broken pipe
FlushErrnos == { EAGAIN, 32 }

(***************************************************************************)
(* State.                                                                  *)
(***************************************************************************)
VARIABLES
    session,          \* "none", "building", "live" or "dropped": the EiType value;
                      \* "cli" for a TypeContext of the command-line program
    keymap,           \* EiType.keymap: <<>> for None, <<km>> for Some(km)
    layout_index,     \* EiType.layout_index
    delay,            \* EiType.delay, in ms
    held_modifiers,   \* EiType.held_modifiers
    sequence,         \* EiType.sequence
    closed,           \* EiType.closed
    stack,            \* the call stack, innermost frame last
    ret,              \* the value the callee just returned; with an empty
                      \* stack, the result of the last call of the client
    retries,          \* flush_with_retry: let mut retries
    delay_ms,         \* flush_with_retry: let mut delay_ms
    events,           \* requests handed to the transport (and sleeps of the
                      \* inter-event delay) during the current client call
    answers,          \* what connection.flush() answered to each attempt of the
                      \* current or last flush_with_retry: 0 for Ok, else the errno
    slept,            \* the backoff sleeps of that flush_with_retry, in ms
    flush_ret,        \* what that flush_with_retry returned (NoRet while it runs)
    lifecycle,        \* start_emulating / stop_emulating / disconnect requests
                      \* of the whole session, in order
    disconnect_flush, \* errno of the single flush after disconnect (0: Ok, -1: none yet)
    call,             \* name of the current or last call of the client
    actions,          \* the list given to the current or last execute_actions;
                      \* for a direct call of a method, the one action it amounts to
    call_held,        \* held_modifiers when the current client call began
    call_closed,      \* closed when the current client call began
    used,             \* actions the client has handed to the session so far
    config,           \* the EiTypeConfig given to from_stream: which of layout,
                      \* variant, model and options are Some
    device_keymap,    \* device.keymap(): <<>> for None, <<blob>> for the keymap
                      \* the server attached to the device
    argv,             \* the command line of the program: its -M, -k, -P and
                      \* TEXT arguments in the order given (<<>> in the library)
    created,          \* the clock readings at which the process built its
                      \* sessions, oldest first
    now,              \* Instant::now(): the monotonic clock of the process, in
                      \* microseconds
    START             \* get_timestamp: static START: OnceLock<Instant>; -1 while
                      \* it is not initialised

obj == <<session, keymap, layout_index, delay, held_modifiers, sequence, closed>>
flushv == <<retries, delay_ms, answers, slept, flush_ret>>
setupv == <<config, device_keymap, created, argv>>
clientv == <<call, actions, call_held, call_closed, used, setupv>>
timev == <<now, START>>
vars == <<obj, stack, ret, flushv, events, lifecycle, disconnect_flush, clientv, timev>>

(***************************************************************************)
(* Results, frames and events.                                             *)
(***************************************************************************)
NoRet == [kind |-> "None", n |-> 0]
Ok == [kind |-> "Ok", n |-> 0]
\* an EiTypeError; n is the number a Typing message names, 0 when it names none
Err(kind, n) == [kind |-> kind, n |-> n]
IsErr(r) == r.kind \notin {"None", "Ok"}

Fr(fn, pc, k, sh, txt) == [fn |-> fn, pc |-> pc, k |-> k, sh |-> sh, txt |-> txt]
Frame(fn) == Fr(fn, 0, 0, FALSE, <<>>)
FrameOn(fn, txt) == Fr(fn, 0, 0, FALSE, txt)

Top == stack[Len(stack)]
Pop == SubSeq(stack, 1, Len(stack) - 1)
Running(fn) == stack # <<>> /\ Top.fn = fn
\* the stack with the top frame replaced
Retop(f) == Append(Pop, f)

KeyEvent(keycode, state) == [op |-> "key", k |-> keycode, st |-> state]
\* a frame request with its timestamp
FrameAt(timestamp) == [op |-> "frame", k |-> timestamp, st |-> ""]
\* the frame of a process whose clock has not advanced since START
FrameEvent == FrameAt(0)
SleepEvent(ms) == [op |-> "sleep", k |-> ms, st |-> ""]
LifeEvent(op, n) == [op |-> op, k |-> n, st |-> ""]

get_timestamp_Wrapping == IF START = -1 THEN 0 ELSE (now - START) % 2

\* get_timestamp: START.get_or_init(Instant::now).elapsed().as_micros()
get_timestamp == IF START = -1 THEN 0 ELSE now - START

\* the effect of get_timestamp on START when the requests evs hold a frame
InitStart(evs) ==
    START' = IF START = -1 /\ \E i \in 1..Len(evs) : evs[i].op = "frame"
             THEN now ELSE START

press_key_internal_NoFrame(keycode) == << KeyEvent(keycode, "Press") >>

\* press_key_internal: keyboard.key(keycode, Press); send_frame queues the
\* frame with get_timestamp()
press_key_internal(keycode) ==
    << KeyEvent(keycode, "Press"), FrameAt(get_timestamp) >>
\* release_key_internal
release_key_internal(keycode) ==
    << KeyEvent(keycode, "Released"), FrameAt(get_timestamp) >>
\* if !self.delay.is_zero() { sleep(self.delay) }
DelaySleep(d) == IF d # 0 THEN << SleepEvent(d) >> ELSE <<>>

EnterFlush_Carry(base, evs) ==
    /\ events' = events \o evs
    /\ InitStart(evs)
    /\ UNCHANGED now
    /\ stack' = Append(base, Frame("flush_with_retry"))
    /\ ret' = NoRet
    /\ UNCHANGED <<retries, delay_ms>>
    /\ answers' = <<>>
    /\ slept' = <<>>
    /\ flush_ret' = NoRet

\* The requests evs are queued and flush_with_retry is entered above base:
\* let mut retries = 0; let mut delay_ms = INITIAL_DELAY_MS.
EnterFlush(base, evs) ==
    /\ events' = events \o evs
    /\ InitStart(evs)
    /\ UNCHANGED now
    /\ stack' = Append(base, Frame("flush_with_retry"))
    /\ ret' = NoRet
    /\ retries' = 0
    /\ delay_ms' = INITIAL_DELAY_MS
    /\ answers' = <<>>
    /\ slept' = <<>>
    /\ flush_ret' = NoRet

\* The function on top returns r to the frame below (base is the stack without it).
Return(base, r) ==
    /\ stack' = base
    /\ ret' = r
    /\ UNCHANGED <<events, flushv, timev>>

\* The function on top calls f; its own frame becomes self.
Invoke(self, f) ==
    /\ stack' = Append(Retop(self), f)
    /\ ret' = NoRet
    /\ UNCHANGED <<events, flushv, timev>>

(***************************************************************************)
(* Construction: EiType::from_stream.                                      *)
(***************************************************************************)
Init ==
    /\ session = "none"
    /\ keymap = <<>>
    /\ layout_index = 0
    /\ delay = 0
    /\ held_modifiers = <<>>
    /\ sequence = 0
    /\ closed = FALSE
    /\ stack = <<>>
    /\ ret = NoRet
    /\ retries = 0
    /\ delay_ms = INITIAL_DELAY_MS
    /\ events = <<>>
    /\ answers = <<>>
    /\ slept = <<>>
    /\ flush_ret = NoRet
    /\ lifecycle = <<>>
    /\ disconnect_flush = -1
    /\ call = "none"
    /\ actions = <<>>
    /\ call_held = <<>>
    /\ call_closed = FALSE
    /\ used = 0
    /\ config = NoConfig
    /\ device_keymap = <<>>
    /\ created = <<>>
    /\ argv = <<>>
    /\ now = 0
    /\ START = -1

\* The client's call begins: the per-call observations start afresh.
BeginCall(name, list, f) ==
    /\ stack = <<>>
    /\ call' = name
    /\ actions' = list
    /\ call_held' = held_modifiers
    /\ call_closed' = closed
    /\ events' = <<>>
    /\ UNCHANGED timev
    /\ stack' = << f >>
    /\ ret' = NoRet
    /\ retries' = 0
    /\ delay_ms' = INITIAL_DELAY_MS
    /\ answers' = <<>>
    /\ slept' = <<>>
    /\ flush_ret' = NoRet

\* from_stream, after the handshake bound a keyboard device: the struct
\* literal.  The process builds at most `sessions` sessions, a new one only
\* when the one before is gone; the logs kept per session start afresh.
CallFromStream(layouts, delays, configs, devices, sessions) ==
    /\ session \in {"none", "dropped"}
    /\ Len(created) < sessions
    /\ session' = "building"
    /\ \E li \in layouts, d \in delays : layout_index' = li /\ delay' = d
    /\ \E c \in configs, dk \in devices : config' = c /\ device_keymap' = dk
    /\ created' = Append(created, now)
    /\ UNCHANGED argv
    /\ keymap' = <<>>
    /\ held_modifiers' = <<>>
    /\ sequence' = 1
    /\ closed' = FALSE
    /\ BeginCall("from_stream", <<>>, Frame("from_stream"))
    /\ lifecycle' = <<>>
    /\ disconnect_flush' = -1
    /\ used' = 0

\* the session of most specifications: no keymap configuration, layout 0,
\* no delay, a device that carries the "us" keymap, one session per process
FromStreamPlain == CallFromStream({0}, {0}, {NoConfig}, {<< KeymapUS >>}, 1)

\* start_emulating: the request is queued with the current sequence, which is
\* then incremented, and the stream is flushed with retry.
start_emulating(self) ==
    /\ sequence' = sequence + 1
    /\ lifecycle' = Append(lifecycle, LifeEvent("start_emulating", sequence))
    /\ EnterFlush(Retop(self), << LifeEvent("start_emulating", sequence) >>)

\* stop_emulating
stop_emulating(self) ==
    /\ lifecycle' = Append(lifecycle, LifeEvent("stop_emulating", 0))
    /\ EnterFlush(Retop(self), << LifeEvent("stop_emulating", 0) >>)

store_keymap_None(km) == <<>>

\* self.keymap = Some(keymap)
store_keymap(km) == << km >>

\* pc 0: setup_keymap, which compiles a keymap or fails; then start_emulating.
\* pc 1: start_emulating returned.  On either failure the `?` drops the
\* partially built value, which runs Drop (pc 2) before the error is returned.
FromStreamStep ==
    /\ Running("from_stream")
    /\ \/ /\ Top.pc = 0
          /\ keymap' = store_keymap(setup_keymap(config, device_keymap))
          /\ start_emulating([Top EXCEPT !.pc = 1])
          /\ UNCHANGED <<session, layout_index, delay, held_modifiers, closed,
                         disconnect_flush, clientv>>
       \/ /\ Top.pc = 0
          /\ Invoke([Top EXCEPT !.pc = 2, !.txt = <<"Keymap">>], Frame("close"))
          /\ UNCHANGED <<obj, lifecycle, disconnect_flush, clientv>>
       \/ /\ Top.pc = 1
          /\ ret = Ok
          /\ session' = "live"
          /\ Return(Pop, Ok)
          /\ UNCHANGED <<keymap, layout_index, delay, held_modifiers, sequence, closed,
                         lifecycle, disconnect_flush, clientv>>
       \/ /\ Top.pc = 1
          /\ IsErr(ret)
          /\ Invoke([Top EXCEPT !.pc = 2, !.txt = <<ret.kind>>, !.k = ret.n], Frame("close"))
          /\ UNCHANGED <<obj, lifecycle, disconnect_flush, clientv>>
       \/ /\ Top.pc = 2
          /\ session' = "dropped"
          /\ Return(Pop, Err(Top.txt[1], Top.k))
          /\ UNCHANGED <<keymap, layout_index, delay, held_modifiers, sequence, closed,
                         lifecycle, disconnect_flush, clientv>>

(***************************************************************************)
(* flush_with_retry.                                                       *)
(***************************************************************************)
is_would_block_Any(raw_errno) == TRUE

\* let is_would_block = raw_errno == 11
is_would_block(raw_errno) == raw_errno = EAGAIN

budget_exhausted_Ge(n) == n >= MAX_RETRIES
budget_exhausted_Never(n) == FALSE

\* if retries > MAX_RETRIES
budget_exhausted(n) == n > MAX_RETRIES

next_delay_NoCap(d) == d * 2
next_delay_Linear(d) == Min(d + 1, MAX_DELAY_MS)

\* delay_ms = (delay_ms * 2).min(MAX_DELAY_MS)
next_delay(d) == Min(d * 2, MAX_DELAY_MS)

\* connection.flush() returns Ok(())
FlushOk ==
    /\ Running("flush_with_retry")
    /\ answers' = Append(answers, 0)
    /\ stack' = Pop
    /\ ret' = Ok
    /\ flush_ret' = Ok
    /\ UNCHANGED <<obj, retries, delay_ms, slept, events, lifecycle, disconnect_flush,
                   clientv, timev>>

FlushErr_Requeue(errno, limit) ==
    /\ Running("flush_with_retry")
    /\ errno \in FlushErrnos
    /\ errno = EAGAIN => Len(answers) < limit
    /\ answers' = Append(answers, errno)
    /\ IF ~is_would_block(errno)
       THEN /\ stack' = Pop
            /\ ret' = Err("Typing", 0)
            /\ flush_ret' = Err("Typing", 0)
            /\ UNCHANGED <<retries, delay_ms, slept, events>>
       ELSE /\ retries' = retries + 1
            /\ IF budget_exhausted(retries + 1)
               THEN /\ stack' = Pop
                    /\ ret' = Err("Typing", MAX_RETRIES)
                    /\ flush_ret' = Err("Typing", MAX_RETRIES)
                    /\ UNCHANGED <<delay_ms, slept, events>>
               ELSE /\ slept' = Append(slept, delay_ms)
                    /\ delay_ms' = next_delay(delay_ms)
                    /\ events' = IF retries = 0 /\ events # <<>>
                                 THEN Append(events, events[Len(events)]) ELSE events
                    /\ UNCHANGED <<stack, ret, flush_ret>>
    /\ UNCHANGED <<obj, lifecycle, disconnect_flush, clientv, timev>>

\* connection.flush() fails with errno: a fatal error is returned at once;
\* would-block counts a retry and either gives up or sleeps and loops.
\* limit bounds the would-block answers of the transport within one call.
\* The Typing error of an exhausted budget names MAX_RETRIES in its message.
FlushErr(errno, limit) ==
    /\ Running("flush_with_retry")
    /\ errno \in FlushErrnos
    /\ errno = EAGAIN => Len(answers) < limit
    /\ answers' = Append(answers, errno)
    /\ IF ~is_would_block(errno)
       THEN /\ stack' = Pop
            /\ ret' = Err("Typing", 0)
            /\ flush_ret' = Err("Typing", 0)
            /\ UNCHANGED <<retries, delay_ms, slept>>
       ELSE /\ retries' = retries + 1
            /\ IF budget_exhausted(retries + 1)
               THEN /\ stack' = Pop
                    /\ ret' = Err("Typing", MAX_RETRIES)
                    /\ flush_ret' = Err("Typing", MAX_RETRIES)
                    /\ UNCHANGED <<delay_ms, slept>>
               ELSE /\ slept' = Append(slept, delay_ms)
                    /\ delay_ms' = next_delay(delay_ms)
                    /\ UNCHANGED <<stack, ret, flush_ret>>
    /\ UNCHANGED <<obj, events, lifecycle, disconnect_flush, clientv, timev>>

FlushFatal == FlushErr(32, 0)
FlushWouldBlock(limit) == FlushErr(EAGAIN, limit)

(***************************************************************************)
(* The emitter and the sequencer.                                          *)
(***************************************************************************)
key_to_keycode == build_key_to_keycode_map

\* key_to_keycode.get("shift").copied().unwrap_or(42)
shift_keycode ==
    IF <<115, 104, 105, 102, 116>> \in DOMAIN key_to_keycode
    THEN key_to_keycode[<<115, 104, 105, 102, 116>>] ELSE SHIFT_DEFAULT

to_ascii_lowercase_Identity(ch) == ch

\* char::to_ascii_lowercase and char::is_ascii_uppercase
to_ascii_lowercase(ch) == IF ch >= 65 /\ ch <= 90 THEN ch + 32 ELSE ch
is_ascii_uppercase(ch) == ch >= 65 /\ ch <= 90

ResolveChar_HeldShift(ch, km, li) ==
    LET r == IF km # <<>>
             THEN find_keycode_for_char(ch, km[1], li)
             ELSE IF <<to_ascii_lowercase(ch)>> \in DOMAIN key_to_keycode
                  THEN [ok |-> TRUE, keycode |-> key_to_keycode[<<to_ascii_lowercase(ch)>>],
                        need_shift |-> is_ascii_uppercase(ch)]
                  ELSE NotFound
    IN  [r EXCEPT !.need_shift = @ /\ held_modifiers = <<>>]

\* type_char, the resolution of the character: the compiled keymap when there
\* is one, else the hardcoded table looked up with the lowercased character.
ResolveChar(ch, km, li) ==
    IF km # <<>>
    THEN find_keycode_for_char(ch, km[1], li)
    ELSE IF <<to_ascii_lowercase(ch)>> \in DOMAIN key_to_keycode
         THEN [ok |-> TRUE, keycode |-> key_to_keycode[<<to_ascii_lowercase(ch)>>],
               need_shift |-> is_ascii_uppercase(ch)]
         ELSE NotFound

\* tap_key_internal(keycode): press, delay, release, delay
TapKeyStep ==
    /\ Running("tap_key_internal")
    /\ \/ /\ Top.pc = 0
          /\ EnterFlush(Retop([Top EXCEPT !.pc = 1]), press_key_internal(Top.k))
       \/ /\ Top.pc = 1
          /\ ret = Ok
          /\ EnterFlush(Retop([Top EXCEPT !.pc = 2]),
                        DelaySleep(delay) \o release_key_internal(Top.k))
       \/ /\ Top.pc = 2
          /\ ret = Ok
          /\ events' = events \o DelaySleep(delay)
          /\ stack' = Pop
          /\ ret' = Ok
          /\ UNCHANGED <<flushv, timev>>
       \/ /\ Top.pc \in {1, 2}
          /\ IsErr(ret)
          /\ Return(Pop, ret)
    /\ UNCHANGED <<obj, lifecycle, disconnect_flush, clientv>>

TypeCharStep_ShiftLeftDown ==
    /\ Running("type_char")
    /\ LET r == ResolveChar(Top.k, keymap, layout_index) IN
       \/ /\ Top.pc = 0
          /\ ~r.ok
          /\ Return(Pop, Err("CharNotFound", 0))
       \/ /\ Top.pc = 0
          /\ r.ok
          /\ r.need_shift
          /\ EnterFlush(Retop([Top EXCEPT !.pc = 1, !.k = r.keycode, !.sh = TRUE]),
                        press_key_internal(shift_keycode))
       \/ /\ \/ Top.pc = 0 /\ r.ok /\ ~r.need_shift
             \/ Top.pc = 1 /\ ret = Ok
          /\ Invoke([Top EXCEPT !.pc = 2, !.k = IF Top.pc = 0 THEN r.keycode ELSE @],
                    Fr("tap_key_internal", 0, IF Top.pc = 0 THEN r.keycode ELSE Top.k,
                       FALSE, <<>>))
       \/ /\ Top.pc = 2
          /\ ret = Ok
          /\ Return(Pop, Ok)
       \/ /\ Top.pc \in {1, 2}
          /\ IsErr(ret)
          /\ Return(Pop, ret)
    /\ UNCHANGED <<obj, lifecycle, disconnect_flush, clientv>>

\* type_char(ch): Top.k is ch at pc 0 and the resolved keycode afterwards
TypeCharStep ==
    /\ Running("type_char")
    /\ LET r == ResolveChar(Top.k, keymap, layout_index) IN
       \/ /\ Top.pc = 0
          /\ ~r.ok
          /\ Return(Pop, Err("CharNotFound", 0))
       \/ /\ Top.pc = 0
          /\ r.ok
          /\ r.need_shift
          /\ EnterFlush(Retop([Top EXCEPT !.pc = 1, !.k = r.keycode, !.sh = TRUE]),
                        press_key_internal(shift_keycode))
       \/ /\ \/ Top.pc = 0 /\ r.ok /\ ~r.need_shift
             \/ Top.pc = 1 /\ ret = Ok
          /\ Invoke([Top EXCEPT !.pc = 2, !.k = IF Top.pc = 0 THEN r.keycode ELSE @],
                    Fr("tap_key_internal", 0, IF Top.pc = 0 THEN r.keycode ELSE Top.k,
                       FALSE, <<>>))
       \/ /\ Top.pc = 2
          /\ ret = Ok
          /\ Top.sh
          /\ EnterFlush(Retop([Top EXCEPT !.pc = 3]), release_key_internal(shift_keycode))
       \/ /\ Top.pc = 2
          /\ ret = Ok
          /\ ~Top.sh
          /\ Return(Pop, Ok)
       \/ /\ Top.pc \in {1, 2}
          /\ IsErr(ret)
          /\ Return(Pop, ret)
       \/ /\ Top.pc = 3
          /\ Return(Pop, ret)
    /\ UNCHANGED <<obj, lifecycle, disconnect_flush, clientv>>

NextItem_Backwards(list, done) == list[Len(list) - done]

\* `for x in list`: the item the loop takes after `done` iterations
NextItem(list, done) == list[done + 1]

\* type_text(text): for ch in text.chars() { self.type_char(ch)? }
\* Top.pc is the number of characters handed to type_char so far.
TypeTextStep ==
    /\ Running("type_text")
    /\ \/ /\ IsErr(ret)
          /\ Return(Pop, ret)
       \/ /\ ~IsErr(ret)
          /\ Top.pc < Len(Top.txt)
          /\ Invoke([Top EXCEPT !.pc = @ + 1],
                    Fr("type_char", 0, NextItem(Top.txt, Top.pc), FALSE, <<>>))
       \/ /\ ~IsErr(ret)
          /\ Top.pc = Len(Top.txt)
          /\ Return(Pop, Ok)
    /\ UNCHANGED <<obj, lifecycle, disconnect_flush, clientv>>

\* press_key(key_name) and press_modifier(mod_name): resolve, then tap
PressKeyStep ==
    /\ stack # <<>>
    /\ Top.fn \in {"press_key", "press_modifier"}
    /\ LET keycode == LookupKey(key_to_keycode, Top.txt) IN
       IF keycode = -1
       THEN Return(Pop, Err("UnknownKey", 0))
       ELSE /\ stack' = Retop(Fr("tap_key_internal", 0, keycode, FALSE, <<>>))
            /\ ret' = NoRet
            /\ UNCHANGED <<events, flushv, timev>>
    /\ UNCHANGED <<obj, lifecycle, disconnect_flush, clientv>>

push_Front(v, x) == << x >> \o v

\* Vec::push
push(v, x) == Append(v, x)

\* hold_modifier(mod_name): resolve, press, then push onto held_modifiers
HoldModifierStep ==
    /\ Running("hold_modifier")
    /\ LET keycode == LookupKey(key_to_keycode, Top.txt) IN
       \/ /\ Top.pc = 0
          /\ keycode = -1
          /\ Return(Pop, Err("UnknownKey", 0))
          /\ UNCHANGED held_modifiers
       \/ /\ Top.pc = 0
          /\ keycode # -1
          /\ EnterFlush(Retop([Top EXCEPT !.pc = 1, !.k = keycode]),
                        press_key_internal(keycode))
          /\ UNCHANGED held_modifiers
       \/ /\ Top.pc = 1
          /\ ret = Ok
          /\ held_modifiers' = push(held_modifiers, Top.k)
          /\ Return(Pop, Ok)
       \/ /\ Top.pc = 1
          /\ IsErr(ret)
          /\ Return(Pop, ret)
          /\ UNCHANGED held_modifiers
    /\ UNCHANGED <<session, keymap, layout_index, delay, sequence, closed,
                   lifecycle, disconnect_flush, clientv>>

DrainRev_NoRev(held) == held

\* self.held_modifiers.drain(..).rev().collect::<Vec<_>>()
DrainRev(held) == [ i \in 1..Len(held) |-> held[Len(held) + 1 - i] ]

\* release_modifiers: the stack is drained into a reversed list (Top.txt), whose
\* keys are then released one by one; Top.pc counts the releases emitted.
ReleaseModifiersStep ==
    /\ Running("release_modifiers")
    /\ LET list == IF Top.pc = 0 THEN DrainRev(held_modifiers) ELSE Top.txt IN
       /\ held_modifiers' = IF Top.pc = 0 THEN <<>> ELSE held_modifiers
       /\ \/ /\ Top.pc > 0
             /\ IsErr(ret)
             /\ Return(Pop, ret)
          \/ /\ Top.pc = 0 \/ ret = Ok
             /\ Top.pc < Len(list)
             /\ EnterFlush(Retop([Top EXCEPT !.pc = @ + 1, !.txt = list]),
                           release_key_internal(list[Top.pc + 1]))
          \/ /\ Top.pc = 0 \/ ret = Ok
             /\ Top.pc = Len(list)
             /\ Return(Pop, Ok)
    /\ UNCHANGED <<session, keymap, layout_index, delay, sequence, closed,
                   lifecycle, disconnect_flush, clientv>>

\* the call an action of the list is executed by
ActionFrame(a) ==
    CASE a.type = "Type" -> FrameOn("type_text", a.arg)
      [] a.type = "Key" -> FrameOn("press_key", a.arg)
      [] a.type = "ModifierHold" -> FrameOn("hold_modifier", a.arg)
      [] a.type = "ModifierPress" -> FrameOn("press_modifier", a.arg)

ExecuteActionsStep_KeepGoing ==
    /\ Running("execute_actions")
    /\ \/ /\ Top.pc < Len(actions)
          /\ Invoke([Top EXCEPT !.pc = @ + 1], ActionFrame(NextItem(actions, Top.pc)))
       \/ /\ Top.pc = Len(actions)
          /\ Invoke([Top EXCEPT !.pc = @ + 1], Frame("release_modifiers"))
       \/ /\ Top.pc = Len(actions) + 1
          /\ Return(Pop, ret)
    /\ UNCHANGED <<obj, lifecycle, disconnect_flush, clientv>>

\* execute_actions(actions): Top.pc is the number of actions started; after the
\* last one release_modifiers is called (pc = Len(actions) + 1).
ExecuteActionsStep ==
    /\ Running("execute_actions")
    /\ \/ /\ IsErr(ret)
          /\ Return(Pop, ret)
       \/ /\ ~IsErr(ret)
          /\ Top.pc < Len(actions)
          /\ Invoke([Top EXCEPT !.pc = @ + 1], ActionFrame(NextItem(actions, Top.pc)))
       \/ /\ ~IsErr(ret)
          /\ Top.pc = Len(actions)
          /\ Invoke([Top EXCEPT !.pc = @ + 1], Frame("release_modifiers"))
       \/ /\ ret = Ok
          /\ Top.pc = Len(actions) + 1
          /\ Return(Pop, Ok)
    /\ UNCHANGED <<obj, lifecycle, disconnect_flush, clientv>>

(***************************************************************************)
(* Teardown: close and Drop.                                               *)
(***************************************************************************)
already_closed_Never(c) == FALSE

\* if self.closed { return; }
already_closed(c) == c

CloseSteps_Swapped == << "release_modifiers", "disconnect", "stop_emulating" >>

\* the cleanup steps of close after the guard, in program order
CloseSteps == << "release_modifiers", "stop_emulating", "disconnect" >>

\* close(): the guard, then the cleanup steps; Top.pc counts the steps started.
\* The result of every step is dropped (let _ =); the flush after disconnect is
\* a single connection.flush().
CloseStep ==
    /\ Running("close")
    /\ \/ /\ Top.pc = 0
          /\ already_closed(closed)
          /\ Return(Pop, Ok)
          /\ UNCHANGED <<closed, lifecycle, disconnect_flush>>
       \/ /\ Top.pc = 0 => ~already_closed(closed)
          /\ Top.pc < Len(CloseSteps)
          /\ closed' = TRUE
          /\ LET self == [Top EXCEPT !.pc = @ + 1]
                 step == CloseSteps[Top.pc + 1]
             IN  CASE step = "release_modifiers" ->
                        /\ Invoke(self, Frame("release_modifiers"))
                        /\ UNCHANGED <<lifecycle, disconnect_flush>>
                   [] step = "stop_emulating" ->
                        /\ stop_emulating(self)
                        /\ UNCHANGED disconnect_flush
                   [] step = "disconnect" ->
                        /\ \E errno \in {0} \cup FlushErrnos : disconnect_flush' = errno
                        /\ events' = Append(events, LifeEvent("disconnect", 0))
                        /\ lifecycle' = Append(lifecycle, LifeEvent("disconnect", 0))
                        /\ stack' = Retop(self)
                        /\ ret' = NoRet
                        /\ UNCHANGED <<flushv, timev>>
       \/ /\ Top.pc = Len(CloseSteps)
          /\ Return(Pop, Ok)
          /\ UNCHANGED <<closed, lifecycle, disconnect_flush>>
    /\ UNCHANGED <<session, keymap, layout_index, delay, held_modifiers, sequence, clientv>>

(***************************************************************************)
(* The client.                                                             *)
(***************************************************************************)
\* budget is the number of actions the client hands to the session in all
CallExecuteActions(alphabet, budget) ==
    /\ session = "live"
    /\ used <= budget
    /\ \E list \in ActionLists(alphabet, budget - used) :
         /\ BeginCall("execute_actions", list, Frame("execute_actions"))
         /\ used' = used + Len(list)
    /\ UNCHANGED <<obj, lifecycle, disconnect_flush, setupv>>

CallTypeText(texts, budget) ==
    /\ session = "live"
    /\ used < budget
    /\ \E text \in texts : BeginCall("type_text", << Type(text) >>, FrameOn("type_text", text))
    /\ used' = used + 1
    /\ UNCHANGED <<obj, lifecycle, disconnect_flush, setupv>>

CallHoldModifier(names, budget) ==
    /\ session = "live"
    /\ used < budget
    /\ \E name \in names : BeginCall("hold_modifier", << ModifierHold(name) >>,
                                     FrameOn("hold_modifier", name))
    /\ used' = used + 1
    /\ UNCHANGED <<obj, lifecycle, disconnect_flush, setupv>>

\* a direct call of press_key(key_name)
CallPressKey(names, budget) ==
    /\ session = "live"
    /\ used < budget
    /\ \E name \in names : BeginCall("press_key", << Key(name) >>, FrameOn("press_key", name))
    /\ used' = used + 1
    /\ UNCHANGED <<obj, lifecycle, disconnect_flush, setupv>>

\* a direct call of press_modifier(mod_name)
CallPressModifier(names, budget) ==
    /\ session = "live"
    /\ used < budget
    /\ \E name \in names : BeginCall("press_modifier", << ModifierPress(name) >>,
                                     FrameOn("press_modifier", name))
    /\ used' = used + 1
    /\ UNCHANGED <<obj, lifecycle, disconnect_flush, setupv>>

CallClose ==
    /\ session = "live"
    /\ BeginCall("close", <<>>, Frame("close"))
    /\ UNCHANGED <<obj, lifecycle, disconnect_flush, used, setupv>>

\* the value goes out of scope: Drop::drop calls close()
CallDrop ==
    /\ session = "live"
    /\ session' = "dropped"
    /\ BeginCall("drop", <<>>, Frame("close"))
    /\ UNCHANGED <<keymap, layout_index, delay, held_modifiers, sequence, closed,
                   lifecycle, disconnect_flush, used, setupv>>

(***************************************************************************)
(* The command-line program (main.rs): its own TypeContext.                *)
(***************************************************************************)
\* XkbConfig: TRUE where the Option is Some
XkbConfig(rules, model, layout, variant, options) ==
    [rules |-> rules, model |-> model, layout |-> layout, variant |-> variant,
     options |-> options]

\* XkbConfig::is_specified
XkbConfig_is_specified(c) == c.rules \/ c.model \/ c.layout \/ c.variant \/ c.options

\* TypeContext::setup_keymap, the keymap it stores when the compilation
\* succeeds: the names of the configuration are unwrap_or("") each
TypeContext_setup_keymap(c, device) ==
    IF device # <<>> THEN new_from_fd(device[1])
    ELSE [source |-> IF XkbConfig_is_specified(c) THEN "configured" ELSE "system"]
             @@ KeymapUS

\* run, at the DeviceResumed event of a keyboard: TypeContext::new followed by
\* ctx.setup_keymap()?, which stores a keymap or makes run return the error
RunDeviceResumed(delays, configs, devices) ==
    /\ session = "none"
    /\ \E d \in delays : delay' = d
    /\ \E c \in configs, dk \in devices :
         /\ config' = c
         /\ device_keymap' = dk
         /\ \/ /\ session' = "cli"
               /\ keymap' = << TypeContext_setup_keymap(c, dk) >>
               /\ ret' = Ok
            \/ /\ session' = "dropped"
               /\ keymap' = <<>>
               /\ ret' = Err("Keymap", 0)
    /\ created' = Append(created, now)
    /\ UNCHANGED argv
    /\ held_modifiers' = <<>>
    /\ sequence' = 1
    /\ stack = <<>>
    /\ call' = "run"
    /\ UNCHANGED <<layout_index, closed, stack, flushv, events, lifecycle,
                   disconnect_flush, actions, call_held, call_closed, used, timev>>

RECURSIVE main_ScanLayouts(_, _, _, _)
\* main.rs, find_keycode_for_char: for layout in 0..num_layouts, and within
\* it the same loop over the levels as the library's
main_ScanLayouts(ch, km, keycode_raw, layout) ==
    IF layout >= num_layouts_for_key(km, keycode_raw)
    THEN NotFound
    ELSE LET hit == ScanLevels(ch, km, layout, keycode_raw, 0) IN
         IF hit.ok THEN hit
         ELSE main_ScanLayouts(ch, km, keycode_raw, layout + 1)

RECURSIVE main_ScanKeycodes(_, _, _)
\* for keycode_raw in min_keycode..=max_keycode
main_ScanKeycodes(ch, km, keycode_raw) ==
    IF keycode_raw > km.max_keycode
    THEN NotFound
    ELSE LET hit == main_ScanLayouts(ch, km, keycode_raw, 0) IN
         IF hit.ok THEN hit
         ELSE main_ScanKeycodes(ch, km, keycode_raw + 1)

\* main.rs, find_keycode_for_char(ch, keymap, _xkb_state)
main_find_keycode_for_char(ch, km) == main_ScanKeycodes(ch, km, km.min_keycode)

\* what find_keycode_for_char returns: Ok((keycode, need_shift)) or the error
Found(r) ==
    IF r.ok THEN [kind |-> "Ok", n |-> r.keycode, need_shift |-> r.need_shift]
    ELSE Err("CharNotFound", 0)

\* The TypeContext resolves a character of a text: type_char's call of
\* find_keycode_for_char with the keymap setup_keymap stored.
MainFindKeycodeForChar(chars) ==
    /\ session = "cli"
    /\ stack = <<>>
    /\ keymap # <<>>
    /\ used = 0
    /\ \E ch \in chars :
         /\ actions' = << Type(<< ch >>) >>
         /\ ret' = Found(main_find_keycode_for_char(ch, keymap[1]))
    /\ call' = "find_keycode_for_char"
    /\ used' = 1
    /\ UNCHANGED <<obj, stack, flushv, events, lifecycle, disconnect_flush,
                   call_held, call_closed, setupv, timev>>

(***************************************************************************)
(* The command-line program: run, from the command line to the exit.       *)
(***************************************************************************)
\* one argument of the command line: -M, -k or -P with its value, or a
\* positional TEXT
Arg(kind, value) == [kind |-> kind, value |-> value]

\* the Vec<String> of one option: its values in command-line order
ValuesOf(line, kind) ==
    LET IsKind(a) == a.kind = kind
        sel == SelectSeq(line, IsKind)
    IN  [ i \in 1..Len(sel) |-> sel[i].value ]

\* Args::parse, the four lists run reads
Args_parse(line) ==
    [modifiers |-> ValuesOf(line, "M"), text |-> ValuesOf(line, "TEXT"),
     keys |-> ValuesOf(line, "k"), press_modifiers |-> ValuesOf(line, "P")]

build_actions_TextFirst(args) ==
    [ i \in 1..Len(args.text) |-> Type(args.text[i]) ]
        \o [ i \in 1..Len(args.modifiers) |-> ModifierHold(args.modifiers[i]) ]
        \o [ i \in 1..Len(args.keys) |-> Key(args.keys[i]) ]
        \o [ i \in 1..Len(args.press_modifiers) |-> ModifierPress(args.press_modifiers[i]) ]

\* run: the four loops that fill actions, each
\* for v in &args.x { actions.push(Action::X(v.clone())) }
build_actions(args) ==
    [ i \in 1..Len(args.modifiers) |-> ModifierHold(args.modifiers[i]) ]
        \o [ i \in 1..Len(args.text) |-> Type(args.text[i]) ]
        \o [ i \in 1..Len(args.keys) |-> Key(args.keys[i]) ]
        \o [ i \in 1..Len(args.press_modifiers) |-> ModifierPress(args.press_modifiers[i]) ]

\* run begins: the list is built; an empty list makes run bail out
RunBuildActions(cmdlines) ==
    /\ session = "none"
    /\ call = "none"
    /\ stack = <<>>
    /\ \E line \in cmdlines :
         /\ argv' = line
         /\ actions' = build_actions(Args_parse(line))
         /\ IF build_actions(Args_parse(line)) = <<>>
            THEN session' = "dropped" /\ ret' = Err("NoActions", 0)
            ELSE session' = session /\ ret' = NoRet
    /\ call' = "run"
    /\ UNCHANGED <<keymap, layout_index, delay, held_modifiers, sequence, closed, stack,
                   flushv, events, lifecycle, disconnect_flush, call_held, call_closed,
                   used, config, device_keymap, created, timev>>

\* TypeContext::tap_key, as the requests it makes in order
main_tap_key(keycode, d) ==
    << KeyEvent(keycode, "Press") >> \o DelaySleep(d)
        \o << KeyEvent(keycode, "Released") >> \o DelaySleep(d)

\* the early return of an error, and held_modifiers.push(keycode)
Fail(kind) == [op |-> "fail", k |-> 0, st |-> kind]
PushItem(keycode) == [op |-> "push", k |-> keycode, st |-> ""]

\* TypeContext::type_char: the keymap when there is one, else the static
\* table, where a miss only logs a warning
main_type_char(ch, km, d) ==
    LET r == IF km # <<>>
             THEN main_find_keycode_for_char(ch, km[1])
             ELSE IF <<to_ascii_lowercase(ch)>> \in DOMAIN key_to_keycode
                  THEN [ok |-> TRUE, keycode |-> key_to_keycode[<<to_ascii_lowercase(ch)>>],
                        need_shift |-> is_ascii_uppercase(ch)]
                  ELSE NotFound
    IN  IF ~r.ok
        THEN IF km # <<>> THEN << Fail("CharNotFound") >> ELSE <<>>
        ELSE (IF r.need_shift THEN << KeyEvent(shift_keycode, "Press") >> ELSE <<>>)
                 \o main_tap_key(r.keycode, d)
                 \o (IF r.need_shift THEN << KeyEvent(shift_keycode, "Released") >> ELSE <<>>)

RECURSIVE main_type_text(_, _, _)
\* TypeContext::type_text: for ch in text.chars() { self.type_char(ch)?; }
main_type_text(text, km, d) ==
    IF text = <<>> THEN <<>>
    ELSE LET p == main_type_char(Head(text), km, d) IN
         IF p # <<>> /\ p[Len(p)].op = "fail" THEN p
         ELSE p \o main_type_text(Tail(text), km, d)

\* the method execute_actions calls for an action
main_fn(action) ==
    CASE action.type = "Type" -> "TypeContext::type_text"
      [] action.type = "Key" -> "TypeContext::press_special_key"
      [] action.type = "ModifierHold" -> "TypeContext::hold_modifier"
      [] action.type = "ModifierPress" -> "TypeContext::press_modifier"

\* what that method does, in program order: key requests (each followed by its
\* frame and one connection.flush()), sleeps, the push, the error it returns
main_plan(action, km, d) ==
    LET keycode == LookupKey(key_to_keycode, action.arg) IN
    CASE action.type = "Type" -> main_type_text(action.arg, km, d)
      [] action.type = "Key" ->
            IF keycode = -1 THEN << Fail("UnknownKey") >> ELSE main_tap_key(keycode, d)
      [] action.type = "ModifierHold" ->
            IF keycode = -1 THEN << Fail("UnknownModifier") >>
            ELSE << KeyEvent(keycode, "Press"), PushItem(keycode) >>
      [] action.type = "ModifierPress" ->
            IF keycode = -1 THEN << Fail("UnknownModifier") >> ELSE main_tap_key(keycode, d)

\* TypeContext::release_held_modifiers is entered: the stack is drained into
\* the reversed list of the keys to release
main_release_held_modifiers(self) ==
    /\ held_modifiers' = <<>>
    /\ Invoke(self, FrameOn("TypeContext::release_held_modifiers",
                            [ i \in 1..Len(held_modifiers) |->
                                  KeyEvent(DrainRev(held_modifiers)[i], "Released") ]))

\* TypeContext::start_emulating: the request, the increment, one flush.  On
\* success run goes on to execute_actions; the `?` ends run on a failure.
RunStartEmulating ==
    /\ session = "cli"
    /\ call = "run"
    /\ stack = <<>>
    /\ ret = Ok
    /\ lifecycle = <<>>
    /\ actions # <<>>
    /\ sequence' = sequence + 1
    /\ lifecycle' = Append(lifecycle, LifeEvent("start_emulating", sequence))
    /\ events' = Append(events, LifeEvent("start_emulating", sequence))
    /\ \E errno \in {0} \cup FlushErrnos :
         /\ answers' = Append(answers, errno)
         /\ IF errno = 0
            THEN /\ stack' = << Fr("run", 1, 0, FALSE, <<>>) >>
                 /\ ret' = NoRet
                 /\ session' = session
            ELSE /\ stack' = <<>>
                 /\ ret' = Err("Flush", errno)
                 /\ session' = "dropped"
    /\ UNCHANGED <<keymap, layout_index, delay, held_modifiers, closed, retries, delay_ms,
                   slept, flush_ret, disconnect_flush, clientv, timev>>

\* TypeContext::stop_emulating()? as the last call of run, which returns
\* result when the flush succeeded
main_stop_emulating(result) ==
    /\ lifecycle' = Append(lifecycle, LifeEvent("stop_emulating", 0))
    /\ events' = Append(events, LifeEvent("stop_emulating", 0))
    /\ \E errno \in {0} \cup FlushErrnos :
         /\ answers' = Append(answers, errno)
         /\ ret' = IF errno = 0 THEN result ELSE Err("Flush", errno)
    /\ stack' = <<>>
    /\ session' = "dropped"
    /\ UNCHANGED <<held_modifiers, retries, delay_ms, slept, flush_ret, timev>>

\* run after start_emulating.  pc 1: execute_actions is called.  pc 2: it
\* returned; Ok leads to stop_emulating()?, Err(e) to release_held_modifiers()?
\* with e kept in the frame.  pc 3: that returned; its error ends run, Ok leads
\* to stop_emulating()? and return Err(e).
RunStep ==
    /\ Running("run")
    /\ \/ /\ Top.pc = 1
          /\ Invoke([Top EXCEPT !.pc = 2], Frame("TypeContext::execute_actions"))
          /\ UNCHANGED <<session, held_modifiers, lifecycle>>
       \/ /\ Top.pc = 2
          /\ ret = Ok
          /\ main_stop_emulating(Ok)
       \/ /\ Top.pc = 2
          /\ IsErr(ret)
          /\ main_release_held_modifiers([Top EXCEPT !.pc = 3, !.txt = << ret.kind >>,
                                                     !.k = ret.n])
          /\ UNCHANGED <<session, lifecycle>>
       \/ /\ Top.pc = 3
          /\ IsErr(ret)
          /\ session' = "dropped"
          /\ Return(<<>>, ret)
          /\ UNCHANGED <<held_modifiers, lifecycle>>
       \/ /\ Top.pc = 3
          /\ ret = Ok
          /\ main_stop_emulating(Err(Top.txt[1], Top.k))
    /\ UNCHANGED <<keymap, layout_index, delay, sequence, closed, disconnect_flush, clientv>>

\* TypeContext::execute_actions: Top.pc counts the actions started; after the
\* last one release_held_modifiers()?; an error of either is returned at once.
TypeContextExecuteActionsStep ==
    /\ Running("TypeContext::execute_actions")
    /\ \/ /\ IsErr(ret)
          /\ Return(Pop, ret)
          /\ UNCHANGED held_modifiers
       \/ /\ ~IsErr(ret)
          /\ Top.pc < Len(actions)
          /\ Invoke([Top EXCEPT !.pc = @ + 1],
                    FrameOn(main_fn(actions[Top.pc + 1]),
                            main_plan(actions[Top.pc + 1], keymap, delay)))
          /\ UNCHANGED held_modifiers
       \/ /\ ~IsErr(ret)
          /\ Top.pc = Len(actions)
          /\ main_release_held_modifiers([Top EXCEPT !.pc = @ + 1])
       \/ /\ ~IsErr(ret)
          /\ Top.pc = Len(actions) + 1
          /\ Return(Pop, Ok)
          /\ UNCHANGED held_modifiers
    /\ UNCHANGED <<session, keymap, layout_index, delay, sequence, closed, lifecycle,
                   disconnect_flush, clientv>>

\* the methods of TypeContext that run as a list of requests
PlanFns ==
    { "TypeContext::type_text", "TypeContext::press_special_key",
      "TypeContext::hold_modifier", "TypeContext::press_modifier",
      "TypeContext::release_held_modifiers" }

\* One step of such a method (Top.txt is what it has left to do).  press_key
\* and release_key queue the key and the frame and call connection.flush()
\* once: any failure, would-block included, is returned by the `?`.
TypeContextStep ==
    /\ stack # <<>>
    /\ Top.fn \in PlanFns
    /\ IF Top.txt = <<>>
       THEN /\ Return(Pop, Ok)
            /\ UNCHANGED held_modifiers
       ELSE LET item == Head(Top.txt)
                rest == [Top EXCEPT !.txt = Tail(@)]
            IN  CASE item.op = "key" ->
                       /\ events' = events \o << item, FrameAt(get_timestamp) >>
                       /\ InitStart(<< FrameAt(get_timestamp) >>)
                       /\ \E errno \in {0} \cup FlushErrnos :
                            /\ answers' = Append(answers, errno)
                            /\ IF errno = 0
                               THEN stack' = Retop(rest) /\ ret' = NoRet
                               ELSE stack' = Pop /\ ret' = Err("Flush", errno)
                       /\ UNCHANGED <<held_modifiers, retries, delay_ms, slept, flush_ret, now>>
                  [] item.op = "sleep" ->
                       /\ events' = Append(events, item)
                       /\ stack' = Retop(rest)
                       /\ ret' = NoRet
                       /\ UNCHANGED <<held_modifiers, flushv, timev>>
                  [] item.op = "push" ->
                       /\ held_modifiers' = Append(held_modifiers, item.k)
                       /\ stack' = Retop(rest)
                       /\ ret' = NoRet
                       /\ UNCHANGED <<events, flushv, timev>>
                  [] item.op = "fail" ->
                       /\ Return(Pop, Err(item.st, 0))
                       /\ UNCHANGED held_modifiers
    /\ UNCHANGED <<session, keymap, layout_index, delay, sequence, closed, lifecycle,
                   disconnect_flush, clientv>>

Next ==
    \/ FromStreamPlain
    \/ FromStreamStep
    \/ CallExecuteActions(ActionAlphabet, MaxActions)
    \/ CallTypeText(Texts, MaxActions)
    \/ CallHoldModifier(HoldNames, MaxActions)
    \/ CallClose
    \/ CallDrop
    \/ ExecuteActionsStep
    \/ TypeTextStep
    \/ TypeCharStep
    \/ PressKeyStep
    \/ HoldModifierStep
    \/ TapKeyStep
    \/ ReleaseModifiersStep
    \/ CloseStep
    \/ FlushOk
    \/ FlushFatal
    \/ FlushWouldBlock(MaxWouldBlock)

Spec == Init /\ [][Next]_vars

(***************************************************************************)
(* The flush specification: the same program with a transport that may     *)
(* answer would-block without limit (more often than any call retries),    *)
(* and a client with a smaller choice of actions.                          *)
(***************************************************************************)
FlushAlphabet == { ModifierHold(N_ctrl), Type(T_H), ModifierPress(N_alt) }

\* one more would-block answer than flush_with_retry ever waits for
AnyWouldBlock == MAX_RETRIES + 2

\* a step of the program (everything but the calls of the client)
ProgramStep(limit) ==
    \/ FromStreamStep
    \/ ExecuteActionsStep
    \/ TypeTextStep
    \/ TypeCharStep
    \/ PressKeyStep
    \/ HoldModifierStep
    \/ TapKeyStep
    \/ ReleaseModifiersStep
    \/ CloseStep
    \/ FlushOk
    \/ FlushFatal
    \/ FlushWouldBlock(limit)

NextFlush ==
    \/ FromStreamPlain
    \/ CallExecuteActions(FlushAlphabet, MaxFlushActions)
    \/ CallClose
    \/ CallDrop
    \/ ProgramStep(AnyWouldBlock)

FlushSpec == Init /\ [][NextFlush]_vars

NextFair ==
    \/ FromStreamPlain
    \/ CallExecuteActions(FlushAlphabet, MaxFairActions)
    \/ CallClose
    \/ CallDrop
    \/ ProgramStep(AnyWouldBlock)

\* The program is single-threaded and runs on: an enabled step is taken, and
\* the transport answers every flush attempt.
FairFlushSpec == Init /\ [][NextFair]_vars /\ WF_vars(ProgramStep(AnyWouldBlock))

(***************************************************************************)
(* The method specification: a client that calls the methods of the        *)
(* session directly, with names and texts that resolve and that do not.    *)
(***************************************************************************)
ApiNames == { N_alt, N_nonexistent }
ApiTexts == { T_ie, T_eacute }

\* a step of the program when no list of actions is run
MethodStep(limit) ==
    \/ FromStreamStep
    \/ TypeTextStep
    \/ TypeCharStep
    \/ PressKeyStep
    \/ HoldModifierStep
    \/ TapKeyStep
    \/ ReleaseModifiersStep
    \/ CloseStep
    \/ FlushOk
    \/ FlushFatal
    \/ FlushWouldBlock(limit)

NextApi ==
    \/ FromStreamPlain
    \/ CallPressKey(ApiNames, MaxApiCalls)
    \/ CallPressModifier(ApiNames, MaxApiCalls)
    \/ CallHoldModifier(ApiNames \cup HoldNames, MaxApiCalls)
    \/ CallTypeText(ApiTexts, MaxApiCalls)
    \/ CallClose
    \/ CallDrop
    \/ MethodStep(MaxWouldBlock)

ApiSpec == Init /\ [][NextApi]_vars

(***************************************************************************)
(* The lookup specification: a client that calls press_key and             *)
(* press_modifier with every name of the key table in three casings and    *)
(* with names the table does not hold, on a transport that accepts every   *)
(* flush.  hold_modifier and close vary the state the lookups are made in. *)
(***************************************************************************)
\* the name in capitals, and with a capital first letter
UpperCase(name) ==
    [ i \in 1..Len(name) |-> IF name[i] >= 97 /\ name[i] <= 122 THEN name[i] - 32
                             ELSE name[i] ]
Capitalised(name) ==
    [ i \in 1..Len(name) |-> IF i = 1 THEN UpperCase(name)[i] ELSE name[i] ]

\* "", "f0", "f13", "10", "shift " (with a space), "shif", capital E-acute
UnlistedNames ==
    { <<>>, <<102, 48>>, <<102, 49, 51>>, <<49, 48>>, <<115, 104, 105, 102, 116, 32>>,
      <<115, 104, 105, 102>>, <<201>>, N_nonexistent }

LookupNames ==
    LET listed == DOMAIN key_to_keycode IN
    listed \cup { UpperCase(n) : n \in listed } \cup { Capitalised(n) : n \in listed }
        \cup UnlistedNames

NextLookup ==
    \/ FromStreamPlain
    \/ CallPressKey(LookupNames, MaxLookupCalls)
    \/ CallPressModifier(LookupNames, MaxLookupCalls)
    \/ CallHoldModifier(HoldNames, MaxLookupCalls)
    \/ CallClose
    \/ FromStreamStep
    \/ PressKeyStep
    \/ HoldModifierStep
    \/ TapKeyStep
    \/ ReleaseModifiersStep
    \/ CloseStep
    \/ FlushOk

LookupSpec == Init /\ [][NextLookup]_vars

(***************************************************************************)
(* The clock specification: time passes between the steps of the program.  *)
(* The client holds and taps keys and closes the session, on a transport   *)
(* that accepts every flush.                                               *)
(***************************************************************************)
\* a microsecond passes on the monotonic clock
Tick ==
    /\ now < MaxTime
    /\ now' = now + 1
    /\ UNCHANGED <<obj, stack, ret, flushv, events, lifecycle, disconnect_flush,
                   clientv, START>>

ClockNames == { N_alt }

NextClock ==
    \/ Tick
    \/ FromStreamPlain
    \/ CallPressKey(ClockNames, MaxClockCalls)
    \/ CallHoldModifier(HoldNames, MaxClockCalls)
    \/ CallClose
    \/ FromStreamStep
    \/ PressKeyStep
    \/ HoldModifierStep
    \/ TapKeyStep
    \/ ReleaseModifiersStep
    \/ CloseStep
    \/ FlushOk

ClockSpec == Init /\ [][NextClock]_vars

(***************************************************************************)
(* The backpressure specification: type_text on a transport that answers   *)
(* would-block as often as it likes and never fails otherwise.             *)
(***************************************************************************)
BackpressureTexts == { T_Hi, T_ie }

NextBackpressure ==
    \/ FromStreamPlain
    \/ CallTypeText(BackpressureTexts, MaxBackpressureCalls)
    \/ FromStreamStep
    \/ TypeTextStep
    \/ TypeCharStep
    \/ TapKeyStep
    \/ ReleaseModifiersStep
    \/ CloseStep
    \/ FlushOk
    \/ FlushWouldBlock(AnyWouldBlock)

BackpressureSpec == Init /\ [][NextBackpressure]_vars

(***************************************************************************)
(* The resolution specification: characters are typed, one per call, on a  *)
(* session whose device carries the two-layout keymap, with layout_index   *)
(* 0, 1 or 2 (no key has a third layout); the command-line program         *)
(* resolves the same characters with its own find_keycode_for_char.        *)
(***************************************************************************)
\* 1 ! onesuperior & 2 @ q a A \ | mu , < ; space > and e-acute (on no key)
ResolveChars ==
    { 49, 33, 185, 38, 50, 64, 113, 97, 65, 92, 124, 181, 44, 60, 59, 32, 62, 233 }
ResolveTexts == { << ch >> : ch \in ResolveChars }
LayoutIndexes == { 0, 1, 2 }

NextResolve ==
    \/ CallFromStream(LayoutIndexes, {0}, {NoConfig}, {<< KeymapMulti >>}, 1)
    \/ CallTypeText(ResolveTexts, MaxResolveCalls)
    \/ RunDeviceResumed({0}, {XkbConfig(FALSE, FALSE, FALSE, FALSE, FALSE)},
                        {<< KeymapMulti >>})
    \/ MainFindKeycodeForChar(ResolveChars)
    \/ FromStreamStep
    \/ TypeTextStep
    \/ TypeCharStep
    \/ TapKeyStep
    \/ ReleaseModifiersStep
    \/ CloseStep
    \/ FlushOk

ResolveSpec == Init /\ [][NextResolve]_vars

(***************************************************************************)
(* The fallback specification: type_char applied to a value whose keymap   *)
(* is None, the case its else branch is written for.  The value is the one *)
(* the struct literal of from_stream builds, taken as emulating; no        *)
(* constructor returns it, since from_stream returns Ok only after         *)
(* setup_keymap stored a keymap.                                           *)
(***************************************************************************)
InitFallback ==
    /\ session = "live"
    /\ keymap = <<>>
    /\ layout_index = 0
    /\ delay = 0
    /\ held_modifiers = <<>>
    /\ sequence = 2
    /\ closed = FALSE
    /\ stack = <<>>
    /\ ret = NoRet
    /\ retries = 0
    /\ delay_ms = INITIAL_DELAY_MS
    /\ events = <<>>
    /\ answers = <<>>
    /\ slept = <<>>
    /\ flush_ret = NoRet
    /\ lifecycle = << LifeEvent("start_emulating", 1) >>
    /\ disconnect_flush = -1
    /\ call = "none"
    /\ actions = <<>>
    /\ call_held = <<>>
    /\ call_closed = FALSE
    /\ used = 0
    /\ config = NoConfig
    /\ device_keymap = <<>>
    /\ created = << 0 >>
    /\ argv = <<>>
    /\ now = 0
    /\ START = -1

\* a-z, A-Z, 0-9, newline, space, ! - @ [ ` { and e-acute, capital E-acute
FallbackChars ==
    (97..122) \cup (65..90) \cup (48..57) \cup { 10, 32, 33, 45, 64, 91, 96, 123, 233, 201 }
FallbackTexts == { << ch >> : ch \in FallbackChars }

NextFallback ==
    \/ CallTypeText(FallbackTexts, MaxFallbackCalls)
    \/ TypeTextStep
    \/ TypeCharStep
    \/ TapKeyStep
    \/ FlushOk

FallbackSpec == InitFallback /\ [][NextFallback]_vars

(***************************************************************************)
(* The keysym specification: keysym_to_char is called with each keysym of  *)
(* a set that holds every small code and the ends of every range the       *)
(* function and char::from_u32 distinguish.                                *)
(***************************************************************************)
\* 0xff00..0xff0f, 0xffff, 0xffffff, 0x1000000 + {0, 0x1f, 0x41, 0xe9, 0xd7ff,
\* 0xd800, 0xdbff, 0xdfff, 0xe000, 0x10ffff, 0x110000}, 0x7fffffff (the
\* largest integer the model checker holds)
LargeKeysyms ==
    (65280..65295) \cup
    { 65535, 16777215, 16777216, 16777247, 16777281, 16777449, 16832511, 16832512,
      16833535, 16834559, 16834560, 17891327, 17891328, 2147483647 }
Keysyms == (0..MaxSmallKeysym) \cup LargeKeysyms

\* Option<char>
Some(ch) == [kind |-> "Some", n |-> ch]
None == [kind |-> "NoChar", n |-> 0]

\* the call keysym_to_char(keysym): actions holds the argument
InitKeysym ==
    /\ \E keysym \in Keysyms :
         /\ actions = << keysym >>
         /\ stack = << Fr("keysym_to_char", 0, keysym, FALSE, <<>>) >>
    /\ call = "keysym_to_char"
    /\ session = "none"
    /\ keymap = <<>>
    /\ layout_index = 0
    /\ delay = 0
    /\ held_modifiers = <<>>
    /\ sequence = 0
    /\ closed = FALSE
    /\ ret = NoRet
    /\ retries = 0
    /\ delay_ms = INITIAL_DELAY_MS
    /\ events = <<>>
    /\ answers = <<>>
    /\ slept = <<>>
    /\ flush_ret = NoRet
    /\ lifecycle = <<>>
    /\ disconnect_flush = -1
    /\ call_held = <<>>
    /\ call_closed = FALSE
    /\ used = 0
    /\ config = NoConfig
    /\ device_keymap = <<>>
    /\ created = <<>>
    /\ argv = <<>>
    /\ now = 0
    /\ START = -1

\* keysym_to_char returns
KeysymToCharStep ==
    /\ Running("keysym_to_char")
    /\ LET ch == keysym_to_char(Top.k) IN
       Return(Pop, IF ch = -1 THEN None ELSE Some(ch))
    /\ UNCHANGED <<obj, lifecycle, disconnect_flush, clientv>>

NextKeysym == KeysymToCharStep

KeysymSpec == InitKeysym /\ [][NextKeysym]_vars

(***************************************************************************)
(* The delay specification: sessions built with delay_ms 0 and with a      *)
(* delay of 2 ms type a text with a shifted character and tap a key, on a  *)
(* transport that accepts every flush.                                     *)
(***************************************************************************)
DelaysMs == { 0, 2 }

NextDelay ==
    \/ CallFromStream({0}, DelaysMs, {NoConfig}, {<< KeymapUS >>}, 1)
    \/ CallTypeText({T_Hi}, MaxDelayCalls)
    \/ CallPressKey(ClockNames, MaxDelayCalls)
    \/ FromStreamStep
    \/ TypeTextStep
    \/ TypeCharStep
    \/ PressKeyStep
    \/ TapKeyStep
    \/ ReleaseModifiersStep
    \/ CloseStep
    \/ FlushOk

DelaySpec == Init /\ [][NextDelay]_vars

(***************************************************************************)
(* The process specification: one process builds a session, uses and drops *)
(* it, and builds another, while time passes.                              *)
(***************************************************************************)
NextProcess ==
    \/ Tick
    \/ CallFromStream({0}, {0}, {NoConfig}, {<< KeymapUS >>}, MaxSessions)
    \/ CallPressKey(ClockNames, MaxProcessCalls)
    \/ CallDrop
    \/ FromStreamStep
    \/ PressKeyStep
    \/ TapKeyStep
    \/ ReleaseModifiersStep
    \/ CloseStep
    \/ FlushOk

ProcessSpec == Init /\ [][NextProcess]_vars

(***************************************************************************)
(* The setup specification: sessions of the library and TypeContexts of    *)
(* the command-line program are built with every keymap configuration,     *)
(* on a device that carries a keymap and on one that does not.             *)
(***************************************************************************)
KeymapConfigs ==
    { KeymapConfig(l, v, m, o) : l \in BOOLEAN, v \in BOOLEAN, m \in BOOLEAN, o \in BOOLEAN }
XkbConfigs ==
    { XkbConfig(FALSE, c.model, c.layout, c.variant, c.options) : c \in KeymapConfigs }
Devices == { <<>>, << KeymapUS >> }

NextSetup ==
    \/ CallFromStream({0}, {0}, KeymapConfigs, Devices, 1)
    \/ RunDeviceResumed({0}, XkbConfigs, Devices)
    \/ FromStreamStep
    \/ ReleaseModifiersStep
    \/ CloseStep
    \/ FlushOk

SetupSpec == Init /\ [][NextSetup]_vars

(***************************************************************************)
(* The command-line specification: one run of the program, from its        *)
(* command line to its exit, on a transport whose every flush may fail.    *)
(***************************************************************************)
CliArgs ==
    { Arg("M", N_ctrl), Arg("M", N_Shift), Arg("TEXT", T_Hi), Arg("k", N_nonexistent),
      Arg("P", N_alt) }

\* every command line of at most MaxArgs of these arguments
CmdLines == UNION { [1..m -> CliArgs] : m \in 0..MaxArgs }

\* run between the list and start_emulating: the connection, and the
\* DeviceResumed event of the keyboard
RunConnect ==
    /\ call = "run"
    /\ actions # <<>>
    /\ RunDeviceResumed(DelaysMs, {XkbConfig(FALSE, FALSE, FALSE, FALSE, FALSE)},
                        {<< KeymapUS >>})

NextCli ==
    \/ RunBuildActions(CmdLines)
    \/ RunConnect
    \/ RunStartEmulating
    \/ RunStep
    \/ TypeContextExecuteActionsStep
    \/ TypeContextStep

CliSpec == Init /\ [][NextCli]_vars

(***************************************************************************)
(* Observations used by the properties.                                    *)
(***************************************************************************)
\* the client's call `name` has returned and no other call has begun
Returned(name) == stack = <<>> /\ call = name /\ ret # NoRet

IsKey(e) == e.op = "key"
KeyEvents == SelectSeq(events, IsKey)
Presses(keycode) ==
    Cardinality({ i \in 1..Len(events) :
        events[i] = KeyEvent(keycode, "Press") })
Releases(keycode) ==
    Cardinality({ i \in 1..Len(events) :
        events[i] = KeyEvent(keycode, "Released") })
CountOp(log, op) == Cardinality({ i \in 1..Len(log) : log[i].op = op })

\* the last n elements of a sequence
Last(s, n) == SubSeq(s, Len(s) - n + 1, Len(s))

\* the keycodes the ModifierHold actions of a list press, in list order
RECURSIVE HoldKeycodes(_)
HoldKeycodes(list) ==
    IF list = <<>> THEN <<>>
    ELSE (IF list[1].type = "ModifierHold"
          THEN << LookupKey(key_to_keycode, list[1].arg) >> ELSE <<>>)
         \o HoldKeycodes(Tail(list))

ReleasesOf(keycodes) == [ i \in 1..Len(keycodes) |-> KeyEvent(keycodes[i], "Released") ]
Reversed(s) == [ i \in 1..Len(s) |-> s[Len(s) + 1 - i] ]

(***************************************************************************)
(* C1..C3: modifiers held by execute_actions.                              *)
(***************************************************************************)
\* C1: when execute_actions returns an error after ModifierHold actions of the
\* list succeeded, the held modifiers have been released and held_modifiers
\* is empty on return.
C1_ReleasedOnError ==
    (Returned("execute_actions") /\ IsErr(ret) /\ call_held = <<>>)
        => held_modifiers = <<>>

\* C2: no failure of type_text leaves the automatically pressed shift down:
\* when it returns an error after the tap of a character was begun (so that a
\* shift press the character needs has been sent), every keycode has as many
\* releases as presses among the events of the call.
C2_ShiftReleasedOnError ==
    (Returned("type_text") /\ IsErr(ret) /\ Len(KeyEvents) >= 2)
        => \A e \in { events[i] : i \in 1..Len(events) } :
              IsKey(e) => Presses(e.k) = Releases(e.k)

\* C3 as claimed: when execute_actions succeeds on a list whose ModifierHold
\* actions pressed k1..kN, the last N key events are release(kN), ..., release(k1)
\* and held_modifiers is empty.
C3_LastEventsReleaseListHolds ==
    (Returned("execute_actions") /\ ret = Ok)
        => LET ks == HoldKeycodes(actions) IN
           /\ Len(KeyEvents) >= Len(ks)
           /\ Last(KeyEvents, Len(ks)) = ReleasesOf(Reversed(ks))
           /\ held_modifiers = <<>>

\* C3 as amended: when execute_actions succeeds, with h1..hM held when it was
\* called and k1..kN pressed by the ModifierHold actions of the list, the last
\* M + N key events are release(kN), ..., release(k1), release(hM), ...,
\* release(h1), every other key event of the call comes before them, the log
\* ends with the frame of the last release, and held_modifiers is empty.
C3_LastEventsReleaseWholeStack ==
    (Returned("execute_actions") /\ ret = Ok)
        => LET ks == call_held \o HoldKeycodes(actions) IN
           /\ Len(KeyEvents) >= Len(ks)
           /\ Last(KeyEvents, Len(ks)) = ReleasesOf(Reversed(ks))
           /\ ks # <<>> => Last(events, 1) = << FrameEvent >>
           /\ ks # <<>> =>
                Last(events, 2 * Len(ks)) =
                    [ i \in 1..(2 * Len(ks)) |->
                        IF i % 2 = 1 THEN KeyEvent(Reversed(ks)[(i + 1) \div 2], "Released")
                        ELSE FrameEvent ]
           /\ held_modifiers = <<>>

\* two holds of different keys and another action, all released at the end
C3_Witness ==
    /\ Returned("execute_actions")
    /\ ret = Ok
    /\ actions = << ModifierHold(N_ctrl), ModifierHold(N_Shift), ModifierPress(N_alt) >>
    /\ Last(KeyEvents, 2) = << KeyEvent(42, "Released"), KeyEvent(29, "Released") >>

(***************************************************************************)
(* C4, C5: teardown.                                                       *)
(***************************************************************************)
Teardown(name) == name \in {"close", "drop"}

\* C4: close is idempotent: over any number of close() calls and Drop,
\* stop_emulating and disconnect are sent at most once in the session, and a
\* close() or Drop on a closed session is a no-op that emits nothing and
\* leaves the session as it was.
C4_CloseIdempotent ==
    /\ CountOp(lifecycle, "stop_emulating") <= 1
    /\ CountOp(lifecycle, "disconnect") <= 1
    /\ (Teardown(call) /\ call_closed)
          => /\ events = <<>>
             /\ held_modifiers = call_held
             /\ closed
             /\ stack = <<>> => ret = Ok

\* a Drop that came after the close() of the session
C4_Witness ==
    /\ Returned("drop")
    /\ call_closed
    /\ CountOp(lifecycle, "stop_emulating") = 1
    /\ CountOp(lifecycle, "disconnect") = 1

\* C5: the first teardown of a session sends, in this order, the releases of
\* the held modifiers (in reverse order of hold, up to the first release
\* that fails), then stop_emulating once, then disconnect once, whichever
\* cleanup step fails.
C5_TeardownOrder ==
    (Teardown(call) /\ ~call_closed /\ stack = <<>>)
        => LET n == Len(KeyEvents) IN
           /\ n <= Len(call_held)
           /\ KeyEvents = SubSeq(ReleasesOf(Reversed(call_held)), 1, n)
           /\ Len(events) = 2 * n + 2
           /\ \A i \in 1..(2 * n) : events[i].op \in {"key", "frame"}
           /\ events[2 * n + 1].op = "stop_emulating"
           /\ events[2 * n + 2].op = "disconnect"
           /\ CountOp(lifecycle, "stop_emulating") = 1
           /\ CountOp(lifecycle, "disconnect") = 1

\* a teardown with two modifiers held whose first release failed (the second
\* was never tried) and whose stop_emulating flush failed as well
C5_Witness ==
    /\ Returned("close")
    /\ ~call_closed
    /\ Len(call_held) = 2
    /\ Len(KeyEvents) = 1
    /\ IsErr(flush_ret)
    /\ CountOp(events, "stop_emulating") = 1
    /\ CountOp(events, "disconnect") = 1

(***************************************************************************)
(* C6..C10: flush_with_retry, under the flush specification.               *)
(***************************************************************************)
InFlush == Running("flush_with_retry")
Attempts == Len(answers)
WouldBlocks == Cardinality({ i \in 1..Len(answers) : answers[i] = EAGAIN })
AllWouldBlock == \A i \in 1..Len(answers) : answers[i] = EAGAIN
\* the call returned because the retry budget was exhausted
Exhausted == flush_ret = Err("Typing", MAX_RETRIES)

\* C6 as claimed: when every flush reports would-block, flush_with_retry gives
\* up after at most 50 flush attempts with a Typing error that names the
\* number of attempts.
C6_GivesUpWithin50Attempts ==
    Exhausted => (AllWouldBlock /\ Attempts <= 50 /\ flush_ret.n = Attempts)

\* C6 as amended: when every flush reports would-block, flush_with_retry gives
\* up at the 51st flush attempt (the first attempt and 50 retries, after 50
\* sleeps) and returns a Typing error whose message names 50, the number of
\* retries; it never makes a 52nd attempt.
C6_GivesUpAfter50Retries ==
    /\ Attempts <= MAX_RETRIES + 1
    /\ (InFlush /\ AllWouldBlock) => Attempts <= MAX_RETRIES
    /\ (AllWouldBlock /\ Attempts = MAX_RETRIES + 1) => (~InFlush /\ Exhausted)
    /\ Exhausted =>
         /\ AllWouldBlock
         /\ Attempts = MAX_RETRIES + 1
         /\ Len(slept) = MAX_RETRIES
         /\ flush_ret.kind = "Typing"
         /\ flush_ret.n = 50

\* a flush given up after 51 would-block answers
C6_Witness == Exhausted /\ Attempts = 51 /\ AllWouldBlock /\ ret = flush_ret

\* the wait before the i-th retry: min(2^(i-1), 100) ms.  From the 8th retry
\* on 2^(i-1) is at least 128, so the minimum is 100.
WaitBeforeRetry(i) == IF i <= 8 THEN Min(2 ^ (i - 1), 100) ELSE 100

\* C7: within one flush_with_retry call the wait before the i-th retry is
\* min(2^(i-1), 100) ms: 1,2,4,8,16,32,64,100,100,..., never more than 100 ms.
C7_BackoffSequence ==
    /\ \A i \in 1..Len(slept) : slept[i] = WaitBeforeRetry(i) /\ slept[i] <= 100
    /\ Len(slept) >= 9 => SubSeq(slept, 1, 9) = <<1, 2, 4, 8, 16, 32, 64, 100, 100>>
    /\ InFlush => delay_ms = WaitBeforeRetry(Len(slept) + 1)

\* a call that has slept past the cap
C7_Witness == InFlush /\ Len(slept) = 10 /\ slept[7] = 64 /\ slept[8] = 100

\* C8: a flush whose first k attempts report would-block and whose attempt k+1
\* succeeds, k within the budget, returns Ok after exactly k sleeps; every
\* flush starts with 0 retries and a wait of 1 ms, whatever earlier flushes did.
C8_RetryThenOk ==
    /\ (InFlush /\ Attempts = 0) => (retries = 0 /\ delay_ms = 1 /\ slept = <<>>)
    /\ InFlush => (retries = Attempts /\ Len(slept) = Attempts /\ AllWouldBlock)
    /\ Len(slept) >= 1 => slept[1] = 1
    /\ (~InFlush /\ Attempts >= 1 /\ answers[Attempts] = 0)
          => /\ flush_ret = Ok
             /\ Attempts <= MAX_RETRIES + 1
             /\ Len(slept) = Attempts - 1
             /\ WouldBlocks = Attempts - 1
    /\ (~InFlush /\ IsErr(flush_ret))
          => (Exhausted \/ answers[Attempts] \notin {0, EAGAIN})

\* the flush of a later key event that succeeded at its 4th attempt after
\* sleeping 1, 2 and 4 ms, in a call whose earlier flushes had gone through
C8_Witness ==
    /\ ~InFlush
    /\ answers = <<EAGAIN, EAGAIN, EAGAIN, 0>>
    /\ slept = <<1, 2, 4>>
    /\ flush_ret = Ok
    /\ Len(KeyEvents) >= 2

\* C9: a flush failure that is not would-block is never retried: it is the
\* last answer of its call, which has returned a Typing error with no sleep
\* and no attempt after it, whether it came first or after would-block retries.
C9_FatalNotRetried ==
    \A i \in 1..Len(answers) :
        answers[i] \notin {0, EAGAIN}
            => /\ i = Len(answers)
               /\ ~InFlush
               /\ flush_ret = Err("Typing", 0)
               /\ Len(slept) = i - 1

\* a fatal failure after would-block retries
C9_Witness ==
    /\ Len(answers) = 3
    /\ answers[3] = 32
    /\ flush_ret = Err("Typing", 0)
    /\ ret = flush_ret

\* C10: flush_with_retry terminates whatever the transport answers: it never
\* makes more than 51 attempts or 50 sleeps, and every call of the client
\* (execute_actions on a finite list) returns, hence every flush_with_retry
\* within it (the stack is not empty while one runs).
C10_Terminates ==
    /\ [](Attempts <= MAX_RETRIES + 1 /\ Len(slept) <= MAX_RETRIES)
    /\ ((stack # <<>>) ~> (stack = <<>>))

\* execute_actions returned after a flush that used the whole budget
C10_Witness == Returned("execute_actions") /\ Attempts = 51 /\ Len(actions) >= 1

(***************************************************************************)
(* C11: which flushes are retried.                                         *)
(***************************************************************************)
\* C11: every flush of the outbound stream goes through the bounded
\* would-block retry, the one after the disconnect of close included: no flush
\* is a single attempt whose would-block answer ends it.  The flushes of
\* start_emulating, stop_emulating and send_frame all run in flush_with_retry,
\* where a would-block answer within the budget is never the last attempt; the
\* flush after disconnect is the one recorded in disconnect_flush.
C11_EveryFlushRetried ==
    /\ (~InFlush /\ Attempts >= 1 /\ answers[Attempts] = EAGAIN) => Exhausted
    /\ call = "close" => disconnect_flush # EAGAIN

(***************************************************************************)
(* C12..C14, C17: what a call emits.  The key events a list of actions     *)
(* stands for are written down here action by action, independently of     *)
(* the call stack that produces them.                                      *)
(***************************************************************************)
Press(keycode) == KeyEvent(keycode, "Press")
Release(keycode) == KeyEvent(keycode, "Released")
IsPrefix(s, t) == Len(s) <= Len(t) /\ s = SubSeq(t, 1, Len(s))

\* What an item stands for is a record: ok tells whether all of it resolves,
\* evs are its key events up to the first part that does not resolve.
Run(ok, evs) == [ok |-> ok, evs |-> evs]
Then(a, b) == IF a.ok THEN Run(b.ok, a.evs \o b.evs) ELSE a

\* one character: a tap, wrapped in a shift press and release when it needs shift
CharRun(ch) ==
    LET r == ResolveChar(ch, keymap, layout_index) IN
    IF ~r.ok THEN Run(FALSE, <<>>)
    ELSE IF r.need_shift
         THEN Run(TRUE, << Press(shift_keycode), Press(r.keycode),
                           Release(r.keycode), Release(shift_keycode) >>)
         ELSE Run(TRUE, << Press(r.keycode), Release(r.keycode) >>)

\* a text: its characters in order
RECURSIVE TextRun(_)
TextRun(text) ==
    IF text = <<>> THEN Run(TRUE, <<>>)
    ELSE LET first == CharRun(Head(text)) IN
         IF first.ok THEN Then(first, TextRun(Tail(text))) ELSE first

\* a named key: a tap, or a press alone for a hold
NameRun(name, hold) ==
    LET keycode == LookupKey(key_to_keycode, name) IN
    IF keycode = -1 THEN Run(FALSE, <<>>)
    ELSE IF hold THEN Run(TRUE, << Press(keycode) >>)
         ELSE Run(TRUE, << Press(keycode), Release(keycode) >>)

ActionRun(a) ==
    IF a.type = "Type" THEN TextRun(a.arg)
    ELSE NameRun(a.arg, a.type = "ModifierHold")

\* a list: its actions in order
RECURSIVE ListRun(_)
ListRun(list) ==
    IF list = <<>> THEN Run(TRUE, <<>>)
    ELSE LET first == ActionRun(Head(list)) IN
         IF first.ok THEN Then(first, ListRun(Tail(list))) ELSE first

\* everything execute_actions is to emit: the list, then the final releases
BatchRun ==
    Then(ListRun(actions),
         Run(TRUE, ReleasesOf(Reversed(call_held \o HoldKeycodes(actions)))))
BatchEvents == BatchRun.evs

\* C12: the key events execute_actions emits are the concatenation, in list
\* order, of the events of each action (within a Type action, of each
\* character in text order): what a call has emitted when it returns is a
\* prefix of that concatenation (the log only grows, so this holds at every
\* moment of the call), and a call that succeeds has emitted all of it, each
\* event once.
C12_EventsInListOrder ==
    Returned("execute_actions")
        => /\ IsPrefix(KeyEvents, BatchEvents)
           /\ ret = Ok => KeyEvents = BatchEvents

\* a list of three actions of three kinds, run to the end
C12_Witness ==
    /\ Returned("execute_actions")
    /\ ret = Ok
    /\ actions = << ModifierHold(N_ctrl), Type(T_Hi), ModifierPress(N_alt) >>
    /\ KeyEvents = << Press(29), Press(42), Press(35), Release(35), Release(42),
                      Press(23), Release(23), Press(56), Release(56), Release(29) >>

\* C13: type_text(text) emits, for each character in order, press(key),
\* release(key) when the character needs no shift and press(shift),
\* press(key), release(key), release(shift) when it does; a shift press is
\* always followed by the tap of one key and the release of shift, so two
\* shifted characters in a row give two shift pairs; "Hi" gives press(shift),
\* press(H), release(H), release(shift), press(i), release(i).
C13_ShiftWrapsOneCharacter ==
    (Returned("type_text") /\ ret = Ok)
        => /\ KeyEvents = TextRun(actions[1].arg).evs
           /\ \A i \in 1..Len(KeyEvents) :
                KeyEvents[i] = Press(shift_keycode)
                    => /\ i + 3 <= Len(KeyEvents)
                       /\ KeyEvents[i + 1].st = "Press"
                       /\ KeyEvents[i + 1].k # shift_keycode
                       /\ KeyEvents[i + 2] = Release(KeyEvents[i + 1].k)
                       /\ KeyEvents[i + 3] = Release(shift_keycode)
           /\ actions[1].arg = T_Hi
                => KeyEvents = << Press(42), Press(35), Release(35), Release(42),
                                  Press(23), Release(23) >>
           /\ actions[1].arg = T_HI
                => KeyEvents = << Press(42), Press(35), Release(35), Release(42),
                                  Press(42), Press(23), Release(23), Release(42) >>

\* "Hi" typed to the end
C13_Witness ==
    /\ Returned("type_text")
    /\ ret = Ok
    /\ actions = << Type(T_Hi) >>
    /\ Len(KeyEvents) = 6

\* a key event is appended to the log by this step
QueuesKey ==
    /\ Len(events') > Len(events)
    /\ \E i \in (Len(events) + 1)..Len(events') : IsKey(events'[i])

\* C14: in the outbound stream every key state change is immediately followed
\* by exactly one frame commit, and every frame commits exactly one key state
\* change; the frame is flushed at once (flush_with_retry is running, or has
\* made its attempts, whenever the log ends with a frame), and no key state
\* change is queued before the flush of the previous frame has returned Ok.
C14_OneFramePerKeyEvent ==
    /\ [](/\ \A i \in 1..Len(events) :
                /\ events[i].op = "key"
                      => (i < Len(events) /\ events[i + 1].op = "frame")
                /\ events[i].op = "frame"
                      => (i > 1 /\ events[i - 1].op = "key")
          /\ (events # <<>> /\ events[Len(events)].op = "frame")
                => (InFlush \/ Attempts >= 1))
    /\ [][(QueuesKey /\ events # <<>>)
            => (events[Len(events)].op = "frame" /\ ~InFlush /\ flush_ret = Ok)]_vars

\* a hold and its final release: two key events, two frames
C14_Witness ==
    /\ Returned("execute_actions")
    /\ actions = << ModifierHold(N_ctrl) >>
    /\ [ i \in 1..Len(events) |-> events[i].op ] = << "key", "frame", "key", "frame" >>
    /\ flush_ret = Ok

\* C17: the first failing step aborts the batch.  Once a step of
\* execute_actions or type_text has returned an error, every step up to the
\* return of the call only hands that same error to its caller and queues
\* nothing; the call returns Ok only when every item resolved and no flush
\* failed; when it returns an error, the key events emitted are those that
\* come before the failure in the order of the batch (all the events of the
\* items before the one whose name or character did not resolve, still in
\* the log), and a Typing error is the error of the failed flush.
C17_FirstFailureAborts ==
    /\ [][(call \in {"execute_actions", "type_text"} /\ stack # <<>> /\ IsErr(ret))
            => (stack' = Pop /\ ret' = ret /\ events' = events)]_vars
    /\ [](Returned("execute_actions")
            => /\ ret = Ok => (ListRun(actions).ok /\ flush_ret # Err("Typing", 0))
               /\ IsErr(ret) => IsPrefix(KeyEvents, BatchEvents)
               /\ ret.kind \in {"UnknownKey", "CharNotFound"}
                     => (~ListRun(actions).ok /\ KeyEvents = ListRun(actions).evs)
               /\ ret.kind = "Typing" => ret = flush_ret)

\* a list whose second action fails after the first was typed in full and
\* whose third action is never started
C17_Witness ==
    /\ Returned("execute_actions")
    /\ actions = << Type(T_Hi), Key(N_nonexistent), ModifierPress(N_alt) >>
    /\ ret = Err("UnknownKey", 0)
    /\ Len(KeyEvents) = 6

(***************************************************************************)
(* C15: the state machine of a key.                                        *)
(***************************************************************************)
\* the number of events e among the first n key events of the call
CountBefore(e, n) == Cardinality({ j \in 1..n : KeyEvents[j] = e })

\* C15: each keycode follows Released -> Pressed -> Released: a press is
\* emitted only for a key that is Released and a release only for a key that
\* is Pressed.  Stated for the first execute_actions of a session that was
\* given no action before, so that every key is Released when the call begins.
C15_KeyMachine ==
    (call = "execute_actions" /\ used = Len(actions))
        => \A i \in 1..Len(KeyEvents) :
              LET keycode == KeyEvents[i].k
                  down == CountBefore(Press(keycode), i - 1)
                            - CountBefore(Release(keycode), i - 1)
              IN  IF KeyEvents[i].st = "Press" THEN down = 0 ELSE down = 1

(***************************************************************************)
(* C16: resolution failures, under the method specification.               *)
(***************************************************************************)
InTable(name) == to_lowercase(name) \in DOMAIN key_to_keycode
NamedCall == call \in {"press_key", "press_modifier", "hold_modifier"}
\* nothing of the session has changed since the call began
SessionAsBefore ==
    /\ held_modifiers = call_held
    /\ closed = call_closed
    /\ sequence = 2
    /\ session = "live"

\* C16: a resolution failure has no side effects.  press_key, press_modifier
\* and hold_modifier with a name absent from the key table return UnknownKey
\* having queued no request and attempted no flush; type_text returns
\* CharNotFound at its first unresolvable character having emitted only the
\* events of the characters before it, all flushed; in each case
\* held_modifiers, closed and the sequence counter are as before the call.
\* UnknownKey and CharNotFound are returned in no other case.
C16_ResolutionFailureNoEffect ==
    /\ (NamedCall /\ stack = <<>> /\ ~InTable(actions[1].arg))
          => /\ ret = Err("UnknownKey", 0)
             /\ events = <<>>
             /\ Attempts = 0
             /\ SessionAsBefore
    /\ (NamedCall /\ stack = <<>> /\ InTable(actions[1].arg))
          => ret.kind # "UnknownKey"
    /\ (Returned("type_text") /\ ret.kind = "CharNotFound")
          => /\ ~TextRun(actions[1].arg).ok
             /\ KeyEvents = TextRun(actions[1].arg).evs
             /\ Len(events) = 2 * Len(KeyEvents)
             /\ Attempts >= 1 => flush_ret = Ok
             /\ SessionAsBefore
    /\ (Returned("type_text") /\ ~TextRun(actions[1].arg).ok)
          => ret.kind \in {"CharNotFound", "Typing"}

\* hold_modifier("nonexistent") returned with a modifier already held
C16_Witness ==
    /\ Returned("hold_modifier")
    /\ actions = << ModifierHold(N_nonexistent) >>
    /\ ret = Err("UnknownKey", 0)
    /\ held_modifiers = << 56 >>

(***************************************************************************)
(* C18: the symbolic name table, under the lookup specification.  The      *)
(* table is written down as the specification lists it, name by name.      *)
(***************************************************************************)
\* modifiers, special keys and arrows
ListedNamedKeys ==
    { <<<<115, 104, 105, 102, 116>>, 42>>,                 \* "shift"
      <<<<108, 115, 104, 105, 102, 116>>, 42>>,            \* "lshift"
      <<<<114, 115, 104, 105, 102, 116>>, 54>>,            \* "rshift"
      <<<<99, 116, 114, 108>>, 29>>,                       \* "ctrl"
      <<<<99, 111, 110, 116, 114, 111, 108>>, 29>>,        \* "control"
      <<<<108, 99, 116, 114, 108>>, 29>>,                  \* "lctrl"
      <<<<114, 99, 116, 114, 108>>, 97>>,                  \* "rctrl"
      <<<<97, 108, 116>>, 56>>,                            \* "alt"
      <<<<108, 97, 108, 116>>, 56>>,                       \* "lalt"
      <<<<114, 97, 108, 116>>, 100>>,                      \* "ralt"
      <<<<97, 108, 116, 103, 114>>, 100>>,                 \* "altgr"
      <<<<115, 117, 112, 101, 114>>, 125>>,                \* "super"
      <<<<109, 101, 116, 97>>, 125>>,                      \* "meta"
      <<<<119, 105, 110>>, 125>>,                          \* "win"
      <<<<108, 115, 117, 112, 101, 114>>, 125>>,           \* "lsuper"
      <<<<114, 115, 117, 112, 101, 114>>, 126>>,           \* "rsuper"
      <<<<101, 115, 99, 97, 112, 101>>, 1>>,               \* "escape"
      <<<<101, 115, 99>>, 1>>,                             \* "esc"
      <<<<114, 101, 116, 117, 114, 110>>, 28>>,            \* "return"
      <<<<101, 110, 116, 101, 114>>, 28>>,                 \* "enter"
      <<<<116, 97, 98>>, 15>>,                             \* "tab"
      <<<<98, 97, 99, 107, 115, 112, 97, 99, 101>>, 14>>,  \* "backspace"
      <<<<100, 101, 108, 101, 116, 101>>, 111>>,           \* "delete"
      <<<<105, 110, 115, 101, 114, 116>>, 110>>,           \* "insert"
      <<<<104, 111, 109, 101>>, 102>>,                     \* "home"
      <<<<101, 110, 100>>, 107>>,                          \* "end"
      <<<<112, 97, 103, 101, 117, 112>>, 104>>,            \* "pageup"
      <<<<112, 97, 103, 101, 100, 111, 119, 110>>, 109>>,  \* "pagedown"
      <<<<115, 112, 97, 99, 101>>, 57>>,                   \* "space"
      <<<<99, 97, 112, 115, 108, 111, 99, 107>>, 58>>,     \* "capslock"
      <<<<110, 117, 109, 108, 111, 99, 107>>, 69>>,        \* "numlock"
      <<<<115, 99, 114, 111, 108, 108, 108, 111, 99, 107>>, 70>>, \* "scrolllock"
      <<<<112, 114, 105, 110, 116>>, 99>>,                 \* "print"
      <<<<112, 114, 105, 110, 116, 115, 99, 114, 101, 101, 110>>, 99>>, \* "printscreen"
      <<<<112, 97, 117, 115, 101>>, 119>>,                 \* "pause"
      <<<<109, 101, 110, 117>>, 127>>,                     \* "menu"
      <<<<117, 112>>, 103>>,                               \* "up"
      <<<<100, 111, 119, 110>>, 108>>,                     \* "down"
      <<<<108, 101, 102, 116>>, 105>>,                     \* "left"
      <<<<114, 105, 103, 104, 116>>, 106>>                 \* "right"
    }

\* function keys f1..f12 = 59..70
ListedFunctionKeys ==
    { <<<<102, 49>>, 59>>,                                 \* "f1"
      <<<<102, 50>>, 60>>,                                 \* "f2"
      <<<<102, 51>>, 61>>,                                 \* "f3"
      <<<<102, 52>>, 62>>,                                 \* "f4"
      <<<<102, 53>>, 63>>,                                 \* "f5"
      <<<<102, 54>>, 64>>,                                 \* "f6"
      <<<<102, 55>>, 65>>,                                 \* "f7"
      <<<<102, 56>>, 66>>,                                 \* "f8"
      <<<<102, 57>>, 67>>,                                 \* "f9"
      <<<<102, 49, 48>>, 68>>,                             \* "f10"
      <<<<102, 49, 49>>, 69>>,                             \* "f11"
      <<<<102, 49, 50>>, 70>>                              \* "f12"
    }

\* digits 0-9 = 11,2,3,4,5,6,7,8,9,10
ListedDigits ==
    { <<<<48>>, 11>>,                                      \* "0"
      <<<<49>>, 2>>,                                       \* "1"
      <<<<50>>, 3>>,                                       \* "2"
      <<<<51>>, 4>>,                                       \* "3"
      <<<<52>>, 5>>,                                       \* "4"
      <<<<53>>, 6>>,                                       \* "5"
      <<<<54>>, 7>>,                                       \* "6"
      <<<<55>>, 8>>,                                       \* "7"
      <<<<56>>, 9>>,                                       \* "8"
      <<<<57>>, 10>>                                       \* "9"
    }

\* letters a-z
ListedLetters ==
    { <<<<97>>, 30>>,                                      \* "a"
      <<<<98>>, 48>>,                                      \* "b"
      <<<<99>>, 46>>,                                      \* "c"
      <<<<100>>, 32>>,                                     \* "d"
      <<<<101>>, 18>>,                                     \* "e"
      <<<<102>>, 33>>,                                     \* "f"
      <<<<103>>, 34>>,                                     \* "g"
      <<<<104>>, 35>>,                                     \* "h"
      <<<<105>>, 23>>,                                     \* "i"
      <<<<106>>, 36>>,                                     \* "j"
      <<<<107>>, 37>>,                                     \* "k"
      <<<<108>>, 38>>,                                     \* "l"
      <<<<109>>, 50>>,                                     \* "m"
      <<<<110>>, 49>>,                                     \* "n"
      <<<<111>>, 24>>,                                     \* "o"
      <<<<112>>, 25>>,                                     \* "p"
      <<<<113>>, 16>>,                                     \* "q"
      <<<<114>>, 19>>,                                     \* "r"
      <<<<115>>, 31>>,                                     \* "s"
      <<<<116>>, 20>>,                                     \* "t"
      <<<<117>>, 22>>,                                     \* "u"
      <<<<118>>, 47>>,                                     \* "v"
      <<<<119>>, 17>>,                                     \* "w"
      <<<<120>>, 45>>,                                     \* "x"
      <<<<121>>, 21>>,                                     \* "y"
      <<<<122>>, 44>>                                      \* "z"
    }

Listed == ListedNamedKeys \cup ListedFunctionKeys \cup ListedDigits \cup ListedLetters
ListedNames == { e[1] : e \in Listed }
ListedCode(name) == (CHOOSE e \in Listed : e[1] = name)[2]
\* the name with its ASCII capitals replaced by small letters
Uncased(name) ==
    [ i \in 1..Len(name) |-> IF name[i] >= 65 /\ name[i] <= 90 THEN name[i] + 32
                             ELSE name[i] ]

\* C18: name lookup is a pure, case-insensitive function of the name:
\* whatever the state of the session, press_key and press_modifier tap the
\* keycode the table lists for the name written in small letters (aliases
\* give the same code: shift/lshift 42, ctrl/control/lctrl 29,
\* super/meta/win/lsuper 125, escape/esc 1, return/enter 28, f1..f12 59..70,
\* 0..9 11,2..10, a..z per the letter list), and fail with UnknownKey,
\* emitting nothing, for every name the table does not list.
C18_NameLookup ==
    (stack = <<>> /\ call \in {"press_key", "press_modifier"})
        => LET name == Uncased(actions[1].arg) IN
           IF name \in ListedNames
           THEN /\ ret = Ok
                /\ KeyEvents = << Press(ListedCode(name)), Release(ListedCode(name)) >>
           ELSE /\ ret = Err("UnknownKey", 0)
                /\ events = <<>>

\* press_key("CONTROL") tapped key 29 while a modifier was held
C18_Witness ==
    /\ Returned("press_key")
    /\ actions = << Key(<<67, 79, 78, 84, 82, 79, 76>>) >>
    /\ KeyEvents = << Press(29), Release(29) >>
    /\ held_modifiers # <<>>

(***************************************************************************)
(* C19: the emulation window.                                              *)
(***************************************************************************)
\* C19: every key event of a session lies inside its emulation window:
\* start_emulating is sent once, before the first key event, with the
\* sequence counter value 1, which is then incremented; stop_emulating is
\* sent at most once, and no key event is emitted after it, in the call that
\* sent it or in a later call.
C19_KeysInsideWindow ==
    /\ CountOp(lifecycle, "start_emulating") <= 1
    /\ CountOp(lifecycle, "stop_emulating") <= 1
    /\ KeyEvents # <<>>
          => /\ lifecycle # <<>>
             /\ lifecycle[1] = LifeEvent("start_emulating", 1)
             /\ sequence = 2
             /\ \A i, j \in 1..Len(events) :
                    (events[i].op = "stop_emulating" /\ IsKey(events[j])) => j < i
             /\ ~call_closed

(***************************************************************************)
(* C20: timestamps and the sequence counter, under the clock               *)
(* specification.                                                          *)
(***************************************************************************)
IsFrame(e) == e.op = "frame"
\* the timestamps of the frames of the current call, in order
Timestamps == [ i \in 1..Len(SelectSeq(events, IsFrame)) |->
                    SelectSeq(events, IsFrame)[i].k ]

\* C20: within one session the timestamps of successive frame commits never
\* decrease and the sequence counter never decreases: the timestamps of a
\* call are in non-decreasing order and none is later than the time elapsed
\* since START, which itself never decreases (so the frames of a later call
\* are not earlier than those of the calls before it), and no step lowers
\* the sequence counter.
C20_Monotonic ==
    /\ [](/\ \A i, j \in 1..Len(Timestamps) : i <= j => Timestamps[i] <= Timestamps[j]
          /\ \A i \in 1..Len(Timestamps) :
                START # -1 /\ Timestamps[i] >= 0 /\ Timestamps[i] <= now - START)
    /\ [][/\ sequence' >= sequence
          /\ START # -1 => (START' = START /\ now' - START' >= now - START)]_vars

\* a tap whose two frames carry different timestamps, the first later than START
C20_Witness ==
    /\ Returned("press_key")
    /\ Timestamps = << 1, 2 >>
    /\ sequence = 2

(***************************************************************************)
(* C21: a new session resets both counters.  Every session of a process,   *)
(* the first and any built after it, sends start_emulating with the        *)
(* initial sequence value 1, and the timestamp of each of its frames is    *)
(* measured from the start of that session: it is never more than the time *)
(* that has passed since the session was built, however long an earlier    *)
(* session ran.                                                            *)
(***************************************************************************)
\* the clock reading at which the current session was built
session_start == created[Len(created)]

C21_NewSessionResetsCounters ==
    /\ \A i \in 1..Len(lifecycle) :
         lifecycle[i].op = "start_emulating" => lifecycle[i].k = 1
    /\ \A i \in 1..Len(events) :
         IsFrame(events[i]) => events[i].k <= now - session_start

(***************************************************************************)
(* C22: keymap source selection, in the library session and in the         *)
(* command-line program's TypeContext alike.  Once the value is built it   *)
(* holds exactly one keymap: the one compiled from the configured names    *)
(* when layout, variant, model or options is given, else the one read from *)
(* the keymap attached to the device when there is one, else the system    *)
(* default.                                                                *)
(***************************************************************************)
C22_KeymapSourceSelection ==
    session \in {"live", "cli"} =>
        /\ Len(keymap) = 1
        /\ keymap[1].source =
               IF config.layout \/ config.variant \/ config.model \/ config.options
               THEN "configured"
               ELSE IF device_keymap # <<>> THEN "device" ELSE "system"

(***************************************************************************)
(* C23: backpressure changes timing only, never content.  When no flush of *)
(* a type_text call exhausts its retry budget, the call returns what it    *)
(* returns on a transport that never blocks (Ok when every character       *)
(* resolves) and the key and frame requests it handed to the transport are *)
(* exactly those of that run, however many would-block answers there were; *)
(* and a would-block answer leaves the queued requests as they are: the    *)
(* retry calls flush again and nothing else.                               *)
(***************************************************************************)
\* the key events evs, each followed by its frame
Framed(evs) ==
    [ i \in 1..(2 * Len(evs)) |-> IF i % 2 = 1 THEN evs[(i + 1) \div 2] ELSE FrameEvent ]

\* the flush on top was just answered would-block
AnsweredWouldBlock ==
    /\ InFlush
    /\ Len(answers') = Len(answers) + 1
    /\ answers'[Len(answers')] = EAGAIN

C23_BackpressureChangesTimingOnly ==
    /\ [](Returned("type_text") /\ ~Exhausted =>
             LET run == TextRun(actions[1].arg) IN
             /\ ret = IF run.ok THEN Ok ELSE Err("CharNotFound", 0)
             /\ events = Framed(run.evs))
    /\ [][AnsweredWouldBlock => events' = events]_vars

\* "Hi" was typed although a flush was answered would-block as often as the
\* budget allows
C23_Witness ==
    /\ Returned("type_text")
    /\ ret = Ok
    /\ actions = << Type(T_Hi) >>
    /\ WouldBlocks = MAX_RETRIES
    /\ Len(events) = 12

(***************************************************************************)
(* C24: with a compiled keymap, a character resolves to the first match in *)
(* scan order, keycodes ascending and, within a keycode, levels ascending, *)
(* in the selected layout.  The key tapped is the layout-internal keycode  *)
(* minus 8; the tap is wrapped in a shift press and release exactly when   *)
(* the matching level is 1; when no keycode and level of the selected      *)
(* layout yields the character, the call fails with CharNotFound.          *)
(***************************************************************************)
\* the places <<keycode, level>> of layout li where km binds ch
Matches(ch, km, li) ==
    { m \in (km.min_keycode..km.max_keycode) \X (0..3) :
        /\ m[1] \in DOMAIN km.keys
        /\ li < Len(km.keys[m[1]])
        /\ m[2] < Len(km.keys[m[1]][li + 1])
        /\ \E j \in 1..Len(km.keys[m[1]][li + 1][m[2] + 1]) :
             keysym_to_char(km.keys[m[1]][li + 1][m[2] + 1][j]) = ch }

\* the first of them in scan order
FirstMatch(ms) ==
    CHOOSE m \in ms : \A o \in ms : m[1] < o[1] \/ (m[1] = o[1] /\ m[2] <= o[2])

\* the character the current type_text call was given
TypedChar == actions[1].arg[1]

C24_FirstMatchInScanOrder ==
    Returned("type_text") /\ keymap # <<>> /\ Len(actions[1].arg) = 1 =>
        LET ms == Matches(TypedChar, keymap[1], layout_index) IN
        IF ms = {}
        THEN ret = Err("CharNotFound", 0) /\ events = <<>>
        ELSE LET m == FirstMatch(ms) IN
             /\ ret = Ok
             /\ events = Framed(IF m[2] = 1
                                THEN << Press(shift_keycode), Press(m[1] - 8),
                                        Release(m[1] - 8), Release(shift_keycode) >>
                                ELSE << Press(m[1] - 8), Release(m[1] - 8) >>)

\* "<" is on key 59 at level 1 and on key 94 at level 0 of the first layout:
\* it was typed as shift with evdev key 51
C24_Witness ==
    /\ Returned("type_text")
    /\ actions = << Type(<< 60 >>) >>
    /\ layout_index = 0
    /\ keymap # <<>> /\ keymap[1].keys = KeymapMulti.keys
    /\ KeyEvents = << Press(shift_keycode), Press(51), Release(51), Release(shift_keycode) >>

(***************************************************************************)
(* C25: a character bound only at a level of 2 or higher in the selected   *)
(* layout is unreachable.  Whenever a character is typed, the key tapped   *)
(* binds that character at level 0 or level 1 of the selected layout; a    *)
(* character bound at higher levels only is never typed as a plain tap.    *)
(***************************************************************************)
C25_HigherLevelsUnreachable ==
    Returned("type_text") /\ keymap # <<>> /\ Len(actions[1].arg) = 1 /\ ret = Ok =>
        \E m \in Matches(TypedChar, keymap[1], layout_index) :
            /\ m[2] <= 1
            /\ Press(m[1] - 8) \in { events[i] : i \in 1..Len(events) }

(***************************************************************************)
(* C26: character resolution consults only the layout selected by          *)
(* layout_index.  A character is resolved exactly when the selected layout *)
(* binds it, and then to a key that binds it in that layout: a key without *)
(* that layout contributes nothing, a character bound in another layout    *)
(* only is not resolved, and with layout_index beyond the layouts of every *)
(* key every character fails with CharNotFound.  This holds for type_text  *)
(* of the library and for find_keycode_for_char of the command-line        *)
(* program.                                                                *)
(***************************************************************************)
C26_OnlySelectedLayout ==
    /\ Returned("type_text") /\ keymap # <<>> /\ Len(actions[1].arg) = 1 =>
         LET ms == Matches(TypedChar, keymap[1], layout_index) IN
         /\ ms = {} => ret = Err("CharNotFound", 0) /\ events = <<>>
         /\ ms # {} => /\ ret = Ok
                       /\ \E m \in ms : KeyEvents[Len(KeyEvents)].k \in {m[1] - 8, shift_keycode}
    /\ Returned("find_keycode_for_char") =>
         LET ms == Matches(TypedChar, keymap[1], layout_index) IN
         /\ ms = {} => ret = Err("CharNotFound", 0)
         /\ ms # {} => ret.kind = "Ok" /\ \E m \in ms : ret.n = m[1] - 8

(***************************************************************************)
(* C27 as stated: without a compiled keymap the character is lowercased    *)
(* and looked up in a table of the 26 letters only, so a small letter is   *)
(* typed and every other character, capitals and digits included, fails    *)
(* with CharNotFound and emits no events.                                  *)
(***************************************************************************)
IsSmallLetter(ch) == ch >= 97 /\ ch <= 122
IsCapital(ch) == ch >= 65 /\ ch <= 90
IsDigit(ch) == ch >= 48 /\ ch <= 57

Keysym == actions[1]

C28_EveryUnicodeKeysymMaps ==
    Returned("keysym_to_char") =>
        ret = IF (Keysym >= 32 /\ Keysym <= 126) \/ (Keysym >= 160 /\ Keysym <= 255)
              THEN Some(Keysym)
              ELSE IF Keysym >= 16777216 THEN Some(Keysym - 16777216)
              ELSE IF Keysym = 65293 THEN Some(10)
              ELSE IF Keysym = 65289 THEN Some(9)
              ELSE None

(***************************************************************************)
(* C28, amended: keysym_to_char maps 0x20..0x7e and 0xa0..0xff to the      *)
(* character with the same code; a code from 0x1000000 on to the character *)
(* with the code keysym - 0x1000000 when that is a Unicode scalar value    *)
(* (at most 0x10ffff and not a surrogate 0xd800..0xdfff) and to None       *)
(* otherwise; 0xff0d to newline and 0xff09 to tab; every other code to     *)
(* None.                                                                   *)
(***************************************************************************)
IsScalarValue(i) == i <= 1114111 /\ ~(i >= 55296 /\ i <= 57343)

C28_UnicodeKeysymMapsScalarValues ==
    Returned("keysym_to_char") =>
        ret = IF (Keysym >= 32 /\ Keysym <= 126) \/ (Keysym >= 160 /\ Keysym <= 255)
              THEN Some(Keysym)
              ELSE IF Keysym >= 16777216
              THEN (IF IsScalarValue(Keysym - 16777216)
                    THEN Some(Keysym - 16777216) ELSE None)
              ELSE IF Keysym = 65293 THEN Some(10)
              ELSE IF Keysym = 65289 THEN Some(9)
              ELSE None

\* 0x1000000 + 0xd800, a surrogate, was converted to None
C28_Witness ==
    /\ Returned("keysym_to_char")
    /\ Keysym = 16832512
    /\ ret = None

(***************************************************************************)
(* C29: with a delay d that is not zero, a sleep of d follows every press  *)
(* and every release of a type_text or press_key call, right after the     *)
(* frame of the key event, the shift press and the shift release around a  *)
(* shifted character included; with d = 0 the call never sleeps.           *)
(***************************************************************************)
IsSleep(e) == e.op = "sleep"

C29_SleepAfterEveryKeyEvent ==
    Returned("type_text") \/ Returned("press_key") =>
        IF delay = 0
        THEN \A i \in 1..Len(events) : ~IsSleep(events[i])
        ELSE \A i \in 1..Len(events) :
                 IsKey(events[i]) =>
                     /\ i + 2 <= Len(events)
                     /\ events[i + 2] = SleepEvent(delay)

(***************************************************************************)
(* C30: the effect of each action on the held-modifier stack.  A           *)
(* press_key or press_modifier call that returns Ok has emitted exactly    *)
(* the press and then the release of the resolved keycode, and at no point *)
(* of the call does held_modifiers differ from what it was when the call   *)
(* began; a hold_modifier call that returns Ok has emitted exactly one     *)
(* press and no release, and held_modifiers is what it was with exactly    *)
(* that keycode added at the end; held_modifiers never changes during a    *)
(* type_text call.                                                         *)
(***************************************************************************)
C30_EffectOnHeldModifiers ==
    /\ call \in {"press_key", "press_modifier"} =>
         /\ held_modifiers = call_held
         /\ Returned(call) /\ ret = Ok =>
              LET keycode == LookupKey(key_to_keycode, actions[1].arg) IN
              KeyEvents = << Press(keycode), Release(keycode) >>
    /\ call = "hold_modifier" =>
         LET keycode == LookupKey(key_to_keycode, actions[1].arg) IN
         IF Returned(call) /\ ret = Ok
         THEN /\ KeyEvents = << Press(keycode) >>
              /\ held_modifiers = Append(call_held, keycode)
         ELSE held_modifiers = call_held
    /\ call = "type_text" => held_modifiers = call_held

\* alt was held, then ctrl: ctrl is the last of the stack
C30_Witness ==
    /\ Returned("hold_modifier")
    /\ ret = Ok
    /\ actions = << ModifierHold(N_ctrl) >>
    /\ call_held = << 56 >>
    /\ held_modifiers = << 56, 29 >>
    /\ KeyEvents = << Press(29) >>

(***************************************************************************)
(* C31: resolution is deterministic.  The keymap, the layout index and the *)
(* key table of a live session never change; and when a list gives the     *)
(* same text or the same key name twice, with a ModifierHold or the same   *)
(* action again in between, the key events of the second occurrence are    *)
(* those of the first, whatever was typed and whatever was pushed onto the *)
(* held-modifier stack in between.                                         *)
(***************************************************************************)
\* the list a, b, a was run to its end; n is the number of key events of a
\* and m that of b, the final releases follow
SameTwice(n, m) ==
    /\ n >= 1
    /\ Len(KeyEvents) = 2 * n + m + Len(call_held) + Len(HoldKeycodes(actions))
    /\ SubSeq(KeyEvents, 1, n) = SubSeq(KeyEvents, n + m + 1, 2 * n + m)

C31_ResolutionDeterministic ==
    /\ [](/\ Returned("execute_actions")
          /\ ret = Ok
          /\ Len(actions) = 3
          /\ actions[1] = actions[3]
          /\ actions[1].type # "ModifierHold"
          => LET rest == Len(KeyEvents) - Len(call_held) - Len(HoldKeycodes(actions)) IN
             IF actions[2].type = "ModifierHold"
             THEN SameTwice((rest - 1) \div 2, 1)
             ELSE actions[2] = actions[1] => SameTwice(rest \div 3, rest \div 3))
    /\ [][session = "live" /\ session' = "live" =>
             keymap' = keymap /\ layout_index' = layout_index]_vars

\* "Hi" was typed, shift was held, "Hi" was typed again
C31_Witness ==
    /\ Returned("execute_actions")
    /\ ret = Ok
    /\ actions = << Type(T_Hi), ModifierHold(N_Shift), Type(T_Hi) >>
    /\ Len(KeyEvents) = 14

(***************************************************************************)
(* C32: a key pressed by ModifierHold stays pressed until the final        *)
(* release of the held modifiers.  While text is typed or a key is tapped, *)
(* no release is emitted for a keycode that is on the held-modifier stack. *)
(***************************************************************************)
\* a step of type_char or tap_key_internal queues a release of a held key
ReleasesHeldKey ==
    /\ stack # <<>>
    /\ Top.fn \in {"type_char", "tap_key_internal"}
    /\ \E i \in (Len(events) + 1)..Len(events') :
         /\ events'[i].op = "key"
         /\ events'[i].st = "Released"
         /\ \E j \in 1..Len(held_modifiers) : held_modifiers[j] = events'[i].k

C32_HeldKeyStaysPressed == [][~ReleasesHeldKey]_vars

(***************************************************************************)
(* C33: release_modifiers never loses a held key.  When it returns, with   *)
(* Ok or with an error, every keycode it took from the stack has had its   *)
(* release emitted or is on held_modifiers again.                          *)
(***************************************************************************)
\* release_modifiers returns; Top.txt is the list it drained from the stack
\* and Top.pc the number of releases it emitted
ReleaseModifiersReturns ==
    /\ Running("release_modifiers")
    /\ stack' = Pop

C33_NoHeldKeyLost ==
    [][ReleaseModifiersReturns =>
          \A j \in 1..Len(Top.txt) :
              \/ j <= Top.pc
              \/ \E i \in 1..Len(held_modifiers') : held_modifiers'[i] = Top.txt[j]]_vars

(***************************************************************************)
(* C34: held_modifiers tracks exactly the keys pressed by hold_modifier.   *)
(* A hold_modifier call that returned Ok has emitted one press and         *)
(* appended its keycode; one that returned an error has handed no key      *)
(* event to the transport and left held_modifiers as it was.               *)
(***************************************************************************)
C34_NoUntrackedPress ==
    Returned("hold_modifier") =>
        IF ret = Ok
        THEN LET keycode == LookupKey(key_to_keycode, actions[1].arg) IN
             /\ KeyEvents = << Press(keycode) >>
             /\ held_modifiers = Append(call_held, keycode)
        ELSE /\ KeyEvents = <<>>
             /\ held_modifiers = call_held

(***************************************************************************)
(* C35: stop_emulating is never sent on a device for which start_emulating *)
(* was not sent first, on every path, the construction that fails in       *)
(* keymap setup or in the flush of start_emulating included.               *)
(***************************************************************************)
C35_StopOnlyAfterStart ==
    \A i \in 1..Len(lifecycle) :
        lifecycle[i].op = "stop_emulating" =>
            \E j \in 1..(i - 1) : lifecycle[j].op = "start_emulating"

(***************************************************************************)
(* C36: once close() has run the session emits nothing more.  A call of    *)
(* type_text, press_key, hold_modifier, press_modifier, release_modifiers  *)
(* or execute_actions that began on a closed session hands no key event    *)
(* and no frame to the transport, and no key becomes held.                 *)
(***************************************************************************)
C36_SilentAfterClose ==
    (call_closed /\ call \notin {"close", "drop"}) =>
        /\ events = <<>>
        /\ held_modifiers = call_held

(***************************************************************************)
(* C37: the time one flush_with_retry call spends sleeping is bounded.     *)
(***************************************************************************)
RECURSIVE SumSeq(_)
SumSeq(q) == IF q = <<>> THEN 0 ELSE q[1] + SumSeq(Tail(q))

\* the milliseconds the current flush_with_retry call has slept in all
TotalSlept == SumSeq(slept)

\* C37: a flush_with_retry call that exhausts its budget has slept
\* 1, 2, 4, 8, 16, 32 and 64 ms and then 100 ms before each remaining retry,
\* 4427 ms in total over 50 sleeps, and no call sleeps longer than that.
C37_TotalSleepBounded ==
    /\ TotalSlept <= 4427
    /\ Exhausted =>
          /\ Len(slept) = 50
          /\ SubSeq(slept, 1, 7) = <<1, 2, 4, 8, 16, 32, 64>>
          /\ \A i \in 8..50 : slept[i] = 100
          /\ TotalSlept = 1 + 2 + 4 + 8 + 16 + 32 + 64 + 43 * 100

\* a call that gave up after sleeping the whole 4427 ms
C37_Witness == Exhausted /\ ret = flush_ret /\ Len(slept) = 50 /\ TotalSlept = 4427

(***************************************************************************)
(* C38: the cleanup of the command-line program.                           *)
(***************************************************************************)
\* run returned after start_emulating went through
RunReturned ==
    /\ call = "run"
    /\ stack = <<>>
    /\ session = "dropped"
    /\ answers # <<>>
    /\ answers[1] = 0

IsFlushed(e) == e.op \in {"start_emulating", "key", "stop_emulating"}
\* the requests of the run that were followed by a flush: the i-th one was
\* answered by answers[i]
FlushOps == SelectSeq(events, IsFlushed)

\* the keycodes the -M options name
ModifierKeycodes ==
    { LookupKey(key_to_keycode, actions[i].arg) :
        i \in { j \in 1..Len(actions) : actions[j].type = "ModifierHold" } }

\* the modifiers whose press went through and that no later request releases
StillHeld ==
    { k \in ModifierKeycodes :
        \E i \in 1..Len(FlushOps) :
            /\ i <= Len(answers)
            /\ FlushOps[i] = KeyEvent(k, "Press")
            /\ answers[i] = 0
            /\ \A j \in (i + 1)..Len(FlushOps) : FlushOps[j] # KeyEvent(k, "Released") }

\* run returns from its error branch: e is kept in the frame
RunReturnsAfterFailure == Running("run") /\ Top.pc = 3 /\ stack' = <<>>

\* C38: whether execute_actions succeeds or fails, and wherever it fails, the
\* program leaves no held modifier pressed and sends stop_emulating exactly
\* once, as its last request, after the last release; when execute_actions
\* failed, run returns the error execute_actions returned.
C38_CleanupOnEveryPath ==
    /\ [](RunReturned =>
            /\ StillHeld = {}
            /\ CountOp(lifecycle, "stop_emulating") = 1
            /\ events[Len(events)] = LifeEvent("stop_emulating", 0))
    /\ [][RunReturnsAfterFailure => ret' = Err(Top.txt[1], Top.k)]_vars

(***************************************************************************)
(* C39: the list of actions of the command-line program.                   *)
(***************************************************************************)
\* run has built its list and has not connected yet
ListBuilt == call = "run" /\ session = "none" /\ stack = <<>>

\* how many arguments of a kind a command line has, and the value of the
\* n-th of them
CountOf(line, kind) == Cardinality({ i \in 1..Len(line) : line[i].kind = kind })
NthOf(line, kind, n) ==
    LET i == CHOOSE i \in 1..Len(line) :
                 /\ line[i].kind = kind
                 /\ CountOf(SubSeq(line, 1, i), kind) = n
    IN  line[i].value

OptionKinds == {"M", "TEXT", "k", "P"}
\* two command lines that give the same values to every option, in the same
\* order within each option
SameOptions(a, b) ==
    \A kind \in OptionKinds :
        /\ CountOf(a, kind) = CountOf(b, kind)
        /\ \A n \in 1..CountOf(a, kind) : NthOf(a, kind, n) = NthOf(b, kind, n)

C40_LiveSessionHasKeymap ==
    /\ []((session = "live" \/ Running("type_char")) => keymap # <<>>)
    /\ [][keymap # <<>> => keymap' = keymap]_vars

\* a text typed through the keymap of a live session
C40_Witness ==
    /\ Returned("type_text")
    /\ session = "live"
    /\ keymap # <<>>
    /\ keymap[1].source = "device"
    /\ Len(KeyEvents) >= 2

====
